---- MODULE Spec2Model ----
(***************************************************************************)
(* Model of the temporal filtering and statistics engines of the           *)
(* oscars-rsotc backend (app/utils and app/services).                      *)
(*                                                                         *)
(* Strings that the code parses or formats (periods, seasons, dates) are   *)
(* sequences of one-character strings, so that split("-"), int() and the   *)
(* f-string formatting are computed, not assumed.                          *)
(***************************************************************************)
EXTENDS Integers, Sequences, FiniteSets, TLC

VARIABLES
    dataset,          \* TemporalFiltering.dataset: time-sorted samples [t, v]
    period_range,     \* TemporalFiltering.period_range (string)
    time_filter,      \* TemporalFiltering.time_filter (string "MM-MM")
    statistical,      \* TemporalFiltering.statistical
    tf_pc,            \* which method of TemporalFiltering has run
    tf_outcome,       \* "none" | "ok" | "error" (an exception left the method)
    data_for_period,  \* result of sel_time_filter
    yearly_data,      \* second result of compute: yearly entries [year, v]
    datasets,         \* get_summary_stats: the input list of datasets
    params,           \* get_summary_stats: SummaryStatsParams
    empty_raises,     \* whether the array library raises on resampling nothing
    ss_pc,            \* get_summary_stats: position of the orchestrating thread
    tasks,            \* get_summary_stats: the task tuples, in submission order
    task_state,       \* per task: "queued" | "running" | "done" | "raised" | "cancelled"
    task_result,      \* per task: what _calculate_variable_stats returned
    finished,         \* task indices in the order the tasks finished
    results,          \* the gathered list of (short_name, var_stats)
    stats_dict,       \* the output map, as the list of its (key, entry) items
    ss_outcome,       \* "none" | "returned" | "error"
    cat_da,           \* handle_precomputed_time_filter: the array da
    cat_season,       \* handle_precomputed_time_filter: season_filter
    cat_pc,           \* "new" | "done"
    cat_outcome,      \* "none" | "ok" | "error"
    cat_label,        \* the label the column was selected by (tf_name)
    cat_warned,       \* whether the fallback warning was logged
    cat_selected,     \* the returned selected_da
    eng_dataset,      \* a single-array engine: the list `dataset`
    eng_params,       \* period, reference_period, season_filter, anomaly
    eng_lib,          \* the array library raises on an empty selection
    eng_pc,           \* "new" | "done"
    eng_name,         \* the engine that served the request
    eng_outcome,      \* "none" | "returned" | "error"
    eng_error,        \* the message of the exception, <<>> without one
    eng_ds,           \* the array the engine took from the list, or None
    eng_steps,        \* the selections made on the array, in order
    eng_data,         \* the data selected for the period
    eng_ref,          \* the data selected for the reference period
    fp_da,            \* filter_by_period: the array da, time-sorted samples
    fp_period,        \* filter_by_period: period
    fp_count,         \* how many times filter_by_period has been applied
    fp_outcome,       \* "none" | "ok" | "error"
    fp_result,        \* what the last application returned
    tr_da,            \* calculate_trend: da_yearly, one entry per year
    tr_fit,           \* what the library returns for a rank-deficient fit
    tr_pc,            \* "new" | "done"
    tr_result,        \* the returned trend, or None
    vs_task,          \* _calculate_variable_stats: da_full, short_name, unit, long_name, agg
    vs_params,        \* _calculate_variable_stats: params
    vs_lib,           \* the array library raises on resampling nothing
    vs_fit,           \* what the library returns for a rank-deficient fit
    vs_pc,            \* "new" | "done"
    vs_outcome,       \* "none" | "returned" | "raised"
    vs_yearly,        \* the local da_yearly
    vs_target,        \* the local target_val
    vs_ref_stats,     \* the local ref_stats, as get_ref_stats returned it
    vs_result,        \* the returned (short_name, var_stats)
    ev_dataset,       \* get_extreme_values: the datasets of the request
    ev_params,        \* get_extreme_values: params
    ev_lib,           \* the array library raises on an empty selection
    ev_ties,          \* the order the sort leaves equal values in
    ev_pc,            \* "new" | "done"
    ev_outcome,       \* "none" | "returned" | "error"
    ev_data,          \* the filtered series da
    ev_sorted,        \* df after sort_values
    ev_result,        \* the returned dict
    ac_dataset,       \* get_annual_cycle: the datasets of the request
    ac_params,        \* get_annual_cycle: params
    ac_lib,           \* the array library raises on an empty selection
    ac_pc,            \* "new" | "done"
    ac_outcome,       \* "none" | "returned" | "error"
    ac_stats,         \* stats before the smoothing
    ac_smoothed,      \* stats after the smoothing
    ac_result,        \* the returned dict of lists
    cm_dataset,       \* get_climatology_map: the datasets of the request
    cm_params,        \* get_climatology_map: params
    cm_lib,           \* the array library raises on an empty selection
    cm_pc,            \* "new" | "done"
    cm_outcome,       \* "none" | "returned" | "error"
    cm_result,        \* the returned dict
    ts_dataset,       \* get_time_series: the datasets of the request
    ts_params,        \* get_time_series: params
    ts_lib,           \* the array library raises on an empty selection
    ts_pc,            \* "new" | "done"
    ts_outcome,       \* "none" | "returned" | "error"
    ts_result,        \* the returned dict
    hg_dataset,       \* get_histograms: the datasets of the request
    hg_params,        \* get_histograms: params
    hg_lib,           \* the array library raises on an empty selection
    hg_auto,          \* the number of bins of numpy's bins="auto"
    hg_bins,          \* bins: the rounded edges
    hg_pc,            \* "new" | "done"
    hg_outcome,       \* "none" | "returned" | "error"
    hg_result,        \* the returned dict
    rt_heap,          \* the Dataset objects alive in the process, by identity
    rt_cache,         \* lru_cache of _open_zarr_s3: uri -> object
    rt_held,          \* the list get_datasets returned last, as objects
    rt_log            \* the calls made so far, with what they returned

tfVars == <<dataset, period_range, time_filter, statistical, tf_pc, tf_outcome,
            data_for_period, yearly_data>>

ssVars == <<datasets, params, empty_raises, ss_pc, tasks, task_state,
            task_result, finished, results, stats_dict, ss_outcome>>

catVars == <<cat_da, cat_season, cat_pc, cat_outcome, cat_label, cat_warned,
             cat_selected>>

engVars == <<eng_dataset, eng_params, eng_lib, eng_pc, eng_name, eng_outcome,
             eng_error, eng_ds, eng_steps, eng_data, eng_ref>>

baseVars == <<tfVars, ssVars, catVars, engVars>>

fpVars == <<fp_da, fp_period, fp_count, fp_outcome, fp_result>>

trVars == <<tr_da, tr_fit, tr_pc, tr_result>>

vsVars == <<vs_task, vs_params, vs_lib, vs_fit, vs_pc, vs_outcome, vs_yearly,
            vs_target, vs_ref_stats, vs_result>>

evVars == <<ev_dataset, ev_params, ev_lib, ev_ties, ev_pc, ev_outcome, ev_data,
            ev_sorted, ev_result>>

acVars == <<ac_dataset, ac_params, ac_lib, ac_pc, ac_outcome, ac_stats,
            ac_smoothed, ac_result>>

cmVars == <<cm_dataset, cm_params, cm_lib, cm_pc, cm_outcome, cm_result>>

tsVars == <<ts_dataset, ts_params, ts_lib, ts_pc, ts_outcome, ts_result>>

hgVars == <<hg_dataset, hg_params, hg_lib, hg_auto, hg_bins, hg_pc, hg_outcome,
            hg_result>>

rtVars == <<rt_heap, rt_cache, rt_held, rt_log>>

firstVars == <<fpVars, trVars, vsVars, evVars, acVars>>

moreVars == <<cmVars, tsVars, hgVars, rtVars>>

laterVars == <<firstVars, moreVars>>

vars == <<baseVars, laterVars>>

\* filter_by_period is not in use
FpIdle ==
    /\ fp_da = <<>>
    /\ fp_period = <<>>
    /\ fp_count = 0
    /\ fp_outcome = "none"
    /\ fp_result = <<>>

\* calculate_trend is not in use
TrIdle ==
    /\ tr_da = <<>>
    /\ tr_fit = <<>>
    /\ tr_pc = "idle"
    /\ tr_result = <<>>

\* _calculate_variable_stats is not in use
VsIdle ==
    /\ vs_task = <<>>
    /\ vs_params = <<>>
    /\ vs_lib = FALSE
    /\ vs_fit = <<>>
    /\ vs_pc = "idle"
    /\ vs_outcome = "none"
    /\ vs_yearly = <<>>
    /\ vs_target = <<>>
    /\ vs_ref_stats = <<>>
    /\ vs_result = <<>>

\* get_extreme_values, with its sort, is not in use
EvIdle ==
    /\ ev_dataset = <<>>
    /\ ev_params = <<>>
    /\ ev_lib = FALSE
    /\ ev_ties = ""
    /\ ev_pc = "idle"
    /\ ev_outcome = "none"
    /\ ev_data = <<>>
    /\ ev_sorted = <<>>
    /\ ev_result = <<>>

\* get_annual_cycle, with its statistics, is not in use
AcIdle ==
    /\ ac_dataset = <<>>
    /\ ac_params = <<>>
    /\ ac_lib = FALSE
    /\ ac_pc = "idle"
    /\ ac_outcome = "none"
    /\ ac_stats = <<>>
    /\ ac_smoothed = <<>>
    /\ ac_result = <<>>

\* get_climatology_map over its regions is not in use
CmIdle ==
    /\ cm_dataset = <<>>
    /\ cm_params = <<>>
    /\ cm_lib = FALSE
    /\ cm_pc = "idle"
    /\ cm_outcome = "none"
    /\ cm_result = <<>>

\* get_time_series is not in use
TsIdle ==
    /\ ts_dataset = <<>>
    /\ ts_params = <<>>
    /\ ts_lib = FALSE
    /\ ts_pc = "idle"
    /\ ts_outcome = "none"
    /\ ts_result = <<>>

\* get_histograms, with its histograms, is not in use
HgIdle ==
    /\ hg_dataset = <<>>
    /\ hg_params = <<>>
    /\ hg_lib = FALSE
    /\ hg_auto = 0
    /\ hg_bins = <<>>
    /\ hg_pc = "idle"
    /\ hg_outcome = "none"
    /\ hg_result = <<>>

\* no dataset was opened and no call was made
RtIdle ==
    /\ rt_heap = <<>>
    /\ rt_cache = <<>>
    /\ rt_held = <<>>
    /\ rt_log = <<>>

FirstIdle == FpIdle /\ TrIdle /\ VsIdle /\ EvIdle /\ AcIdle

MoreIdle == CmIdle /\ TsIdle /\ HgIdle /\ RtIdle

\* none of the functions specified on their own is in use
LaterIdle == FirstIdle /\ MoreIdle

\* the functions specified on their own, but for one
fpOthers == <<trVars, vsVars, evVars, acVars, moreVars>>

FpOthersIdle == TrIdle /\ VsIdle /\ EvIdle /\ AcIdle /\ MoreIdle

trOthers == <<fpVars, vsVars, evVars, acVars, moreVars>>

TrOthersIdle == FpIdle /\ VsIdle /\ EvIdle /\ AcIdle /\ MoreIdle

vsOthers == <<fpVars, trVars, evVars, acVars, moreVars>>

VsOthersIdle == FpIdle /\ TrIdle /\ EvIdle /\ AcIdle /\ MoreIdle

evOthers == <<fpVars, trVars, vsVars, acVars, moreVars>>

EvOthersIdle == FpIdle /\ TrIdle /\ VsIdle /\ AcIdle /\ MoreIdle

acOthers == <<fpVars, trVars, vsVars, evVars, moreVars>>

AcOthersIdle == FpIdle /\ TrIdle /\ VsIdle /\ EvIdle /\ MoreIdle

cmOthers == <<firstVars, tsVars, hgVars, rtVars>>

CmOthersIdle == FirstIdle /\ TsIdle /\ HgIdle /\ RtIdle

tsOthers == <<firstVars, cmVars, hgVars, rtVars>>

TsOthersIdle == FirstIdle /\ CmIdle /\ HgIdle /\ RtIdle

hgOthers == <<firstVars, cmVars, tsVars, rtVars>>

HgOthersIdle == FirstIdle /\ CmIdle /\ TsIdle /\ RtIdle

rtOthers == <<firstVars, cmVars, tsVars, hgVars>>

RtOthersIdle == FirstIdle /\ CmIdle /\ TsIdle /\ HgIdle

-----------------------------------------------------------------------------
(* Bounds of the model *)

\* largest number of samples in an input series
MaxLen == 2

\* largest number of timestamps of a precomputed index array
MaxRows == 2

\* largest number of successive applications of filter_by_period
MaxApply == 2

\* largest number of years of a yearly series handed to calculate_trend
MaxYears == 11

\* largest number of years a precomputed index holds a value for
MaxIndexYears == 3

\* largest number of timestamps of an array handed to get_extreme_values
MaxExtRows == 6

\* the longest filtered series of the overlap cases
MaxOverlapRows == 10

\* largest number of month-day labels of an array handed to get_annual_cycle
MaxLabels == 4

\* get_time_series: the most arrays of a request
MaxSeries == 2

\* get_histograms: the most bins of bins="auto", the most rows of an array
MaxBins == 3
MaxHistRows == 3

\* calls (loads and engine invocations) of one run of the service
MaxCalls == 4

\* largest number of datasets handed to a single-array engine
MaxDatasets == 2

\* largest number of datasets handed to get_summary_stats
MaxVars == 2

\* worker threads of the pool
Workers == 2

\* calendar years the input samples are drawn from (2000 is a leap year)
Years == {1999, 2000, 2001}

\* months the input samples and the season bounds are drawn from
DataMonths == {1, 2, 3, 12}
SeasonMonths == {1, 2, 12}

-----------------------------------------------------------------------------
(* Strings: str.split, int(), f-string formatting *)

Digits == <<"0", "1", "2", "3", "4", "5", "6", "7", "8", "9">>

DigitVal(c) == (CHOOSE i \in 1..10 : Digits[i] = c) - 1

IsDigit(c) == \E i \in 1..10 : Digits[i] = c

\* f"{n}" for a natural number
RECURSIVE IntToStr(_)
IntToStr(n) ==
    IF n < 10 THEN <<Digits[n + 1]>>
    ELSE IntToStr(n \div 10) \o <<Digits[(n % 10) + 1]>>

\* a month as the two-character string of a season filter
MonthStr(m) == IF m < 10 THEN <<"0">> \o IntToStr(m) ELSE IntToStr(m)

\* int(s) succeeds: s is a non-empty run of decimal digits
IsNumeric(s) == Len(s) > 0 /\ \A i \in 1..Len(s) : IsDigit(s[i])

RECURSIVE ParseInt(_)
ParseInt(s) ==
    IF Len(s) = 0 THEN 0
    ELSE 10 * ParseInt(SubSeq(s, 1, Len(s) - 1)) + DigitVal(s[Len(s)])

\* s.split("-"): the list of the parts between the dashes
RECURSIVE SplitFrom(_, _, _)
SplitFrom(s, i, cur) ==
    IF i > Len(s) THEN <<cur>>
    ELSE IF s[i] = "-" THEN <<cur>> \o SplitFrom(s, i + 1, <<>>)
    ELSE SplitFrom(s, i + 1, Append(cur, s[i]))

Split(s) == SplitFrom(s, 1, <<>>)

Dash == <<"-">>

ALL == <<"a", "l", "l">>

\* 'S-E'
PeriodStr(S, E) == IntToStr(S) \o Dash \o IntToStr(E)

\* 'MM-MM'
SeasonStr(a, b) == MonthStr(a) \o Dash \o MonthStr(b)

-----------------------------------------------------------------------------
(* Calendar *)

IsLeap(y) == (y % 4 = 0) /\ ((y % 100 # 0) \/ (y % 400 = 0))

\* mutant: the century rule forgotten and February always short
MonthrangeNoLeap(y, m) ==
    IF m = 2 THEN 28
    ELSE IF m \in {4, 6, 9, 11} THEN 30 ELSE 31

\* calendar.monthrange(y, m)[1]
Monthrange(y, m) ==
    IF m = 2 THEN (IF IsLeap(y) THEN 29 ELSE 28)
    ELSE IF m \in {4, 6, 9, 11} THEN 30 ELSE 31

\* timestamps are <<year, month, day>>; their order
DateKey(t) == t[1] * 10000 + t[2] * 100 + t[3]

\* the label string 'Y-M-D' of a slice bound
FormatDate(yearStr, monthStr, dayStr) ==
    yearStr \o Dash \o monthStr \o Dash \o dayStr

\* the timestamp a slice-bound label denotes
ParseDate(s) ==
    LET p == Split(s) IN <<ParseInt(p[1]), ParseInt(p[2]), ParseInt(p[3])>>

-----------------------------------------------------------------------------
(* Input series *)

\* the timestamps of the input samples: the first day of a month, and the
\* last days of February (the 29th in a leap year only)
Universe ==
    {t \in (Years \X DataMonths \X {1, 28, 29}) :
        /\ (t[3] = 1) = (t[2] # 2)
        /\ t[3] = 29 => IsLeap(t[1])}

RECURSIVE SortedSeq(_)
SortedSeq(S) ==
    IF S = {} THEN <<>>
    ELSE LET lo == CHOOSE t \in S : \A u \in S : DateKey(t) <= DateKey(u)
         IN  <<lo>> \o SortedSeq(S \ {lo})

\* the value stored at a timestamp: a different power of two at each, so
\* that an aggregate tells which samples went into it
SampleValue(t) == 2 ^ Cardinality({u \in Universe : DateKey(u) < DateKey(t)})

\* the time-sorted series over the timestamps D
SeriesOver(D) ==
    LET ts == SortedSeq(D)
    IN  [i \in 1..Len(ts) |-> [t |-> ts[i], v |-> SampleValue(ts[i])]]

\* every time-sorted series of at most MaxLen samples
Series ==
    {SeriesOver(D) : D \in {X \in SUBSET Universe : Cardinality(X) <= MaxLen}}

-----------------------------------------------------------------------------
(* TemporalFiltering.sel_time_filter *)

Periods == {ALL} \cup {PeriodStr(S, E) : S, E \in Years}

Seasons == {SeasonStr(a, b) : a, b \in SeasonMonths}

\* mutant: 'all' ends one year after the last sample
PeriodBoundsThroughNext(ds, pr) ==
    IF pr = ALL
    THEN <<IntToStr(ds[1].t[1]), IntToStr(ds[Len(ds)].t[1] + 1)>>
    ELSE Split(pr)

\* period_range_start, period_range_end as strings
PeriodBounds(ds, pr) ==
    IF pr = ALL
    THEN <<IntToStr(ds[1].t[1]), IntToStr(ds[Len(ds)].t[1])>>
    ELSE Split(pr)

\* mutant: the previous-year start used for every season
SeasonRangeAlwaysWrap(year, start_month, end_month) ==
    <<FormatDate(IntToStr(year - 1), start_month, <<"0", "1">>),
      FormatDate(IntToStr(year), end_month,
                 IntToStr(Monthrange(year, ParseInt(end_month))))>>

\* the slice of one year: its first and last label
SeasonRange(year, start_month, end_month) ==
    IF ParseInt(start_month) <= ParseInt(end_month)
    THEN <<FormatDate(IntToStr(year), start_month, <<"0", "1">>),
           FormatDate(IntToStr(year), end_month,
                      IntToStr(Monthrange(year, ParseInt(end_month))))>>
    ELSE <<FormatDate(IntToStr(year - 1), start_month, <<"0", "1">>),
           FormatDate(IntToStr(year), end_month,
                      IntToStr(Monthrange(year, ParseInt(end_month))))>>

\* dataset.sel(time=slice(lo, hi)) on a time-sorted series: both ends inclusive
SelTime(ds, range) ==
    LET lo == DateKey(ParseDate(range[1]))
        hi == DateKey(ParseDate(range[2]))
        In(s) == lo <= DateKey(s.t) /\ DateKey(s.t) <= hi
    IN  SelectSeq(ds, In)

\* the loop over the years and the concatenation of the slices
RECURSIVE ConcatSeasons(_, _, _, _, _)
ConcatSeasons(ds, year, last, start_month, end_month) ==
    IF year > last THEN <<>>
    ELSE SelTime(ds, SeasonRange(year, start_month, end_month))
            \o ConcatSeasons(ds, year + 1, last, start_month, end_month)

\* an exception leaves sel_time_filter
SelRaises(ds, pr, tf) ==
    \/ Len(Split(tf)) # 2
    \/ pr = ALL /\ Len(ds) = 0
    \/ pr # ALL /\ Len(Split(pr)) # 2
    \/ LET b == PeriodBounds(ds, pr)
           m == Split(tf)
       IN  \/ ~IsNumeric(b[1]) \/ ~IsNumeric(b[2])
           \/ ParseInt(b[1]) > ParseInt(b[2])    \* nothing to concatenate
           \/ ~IsNumeric(m[1]) \/ ~IsNumeric(m[2])
           \/ ParseInt(m[1]) \notin 1..12 \/ ParseInt(m[2]) \notin 1..12

sel_time_filter(ds, pr, tf) ==
    LET b == PeriodBounds(ds, pr)
        m == Split(tf)
    IN  ConcatSeasons(ds, ParseInt(b[1]), ParseInt(b[2]), m[1], m[2])

-----------------------------------------------------------------------------
(* Numbers: a value is a fraction <<n, d>> in lowest terms, d > 0; NaN, the
   missing value, is <<0, 0>> *)

NaN == <<0, 0>>

IsNaN(x) == x[2] = 0

Abs(n) == IF n < 0 THEN -n ELSE n

RECURSIVE GCD(_, _)
GCD(a, b) == IF b = 0 THEN a ELSE GCD(b, a % b)

Frac(n, d) ==
    LET g == GCD(Abs(n), Abs(d))
        sgn == IF d < 0 THEN -1 ELSE 1
    IN  <<(sgn * n) \div g, (sgn * d) \div g>>

Num(n) == <<n, 1>>

FracLess(x, y) == x[1] * y[2] < y[1] * x[2]

FracAdd(x, y) == Frac(x[1] * y[2] + y[1] * x[2], x[2] * y[2])

FracSub(x, y) == Frac(x[1] * y[2] - y[1] * x[2], x[2] * y[2])

FracMul(x, y) == Frac(x[1] * y[1], x[2] * y[2])

\* x / y for y other than zero
FracDiv(x, y) == Frac(x[1] * y[2], x[2] * y[1])

RECURSIVE FracSum(_)
FracSum(xs) ==
    IF Len(xs) = 0 THEN Num(0) ELSE FracAdd(xs[1], FracSum(Tail(xs)))

HasNaN(xs) == \E i \in 1..Len(xs) : IsNaN(xs[i])

\* mapping_statistics: the numpy reducers over a non-empty list of values
\* (numpy propagates NaN)
Statistics == {"mean", "max", "min", "sum"}

Reduce(fn, xs) ==
    IF HasNaN(xs) THEN NaN
    ELSE CASE fn = "sum"  -> FracSum(xs)
           [] fn = "mean" -> LET t == FracSum(xs) IN Frac(t[1], t[2] * Len(xs))
           [] fn = "max"  -> xs[CHOOSE i \in 1..Len(xs) :
                                  \A j \in 1..Len(xs) : ~FracLess(xs[i], xs[j])]
           [] fn = "min"  -> xs[CHOOSE i \in 1..Len(xs) :
                                  \A j \in 1..Len(xs) : ~FracLess(xs[j], xs[i])]

-----------------------------------------------------------------------------
(* TemporalFiltering.compute *)

\* the values of a series, in order
ValuesOf(xs) == [i \in 1..Len(xs) |-> xs[i].v]

\* mutant: every bucket anchored at January
AnchorYearJanuary(t, start_month) == t[1]

\* resample(time="YS-<MON>"): the year of the bucket start_month-01 .. that
\* holds timestamp t
AnchorYear(t, start_month) == IF t[2] >= start_month THEN t[1] ELSE t[1] - 1

\* resample(...).reduce(fn): one entry per bucket from the first to the last
\* occupied bucket, labelled with the bucket's first day; an empty bucket
\* in between holds NaN
Resample(xs, start_month, fn) ==
    IF Len(xs) = 0 THEN <<>>
    ELSE LET lo == AnchorYear(xs[1].t, start_month)
             hi == AnchorYear(xs[Len(xs)].t, start_month)
             Bucket(y) ==
                 LET In(s) == AnchorYear(s.t, start_month) = y
                 IN  ValuesOf(SelectSeq(xs, In))
         IN  [i \in 1..(hi - lo + 1) |->
                [t |-> <<lo + i - 1, start_month, 1>>,
                 v |-> IF Len(Bucket(lo + i - 1)) = 0 THEN NaN
                       ELSE Reduce(fn, Bucket(lo + i - 1))]]

\* mutant: the labels of a wrapping season left in the year the bucket starts
ShiftLabelsNone(xs) == xs

\* astype("datetime64[Y]") + 1 year: the label moves to 1 January of the
\* following year
ShiftLabels(xs) ==
    [i \in 1..Len(xs) |-> [t |-> <<xs[i].t[1] + 1, 1, 1>>, v |-> xs[i].v]]

\* the samples as fractions
AsFrac(xs) == [i \in 1..Len(xs) |-> [t |-> xs[i].t, v |-> Num(xs[i].v)]]

\* the yearly series compute() derives from the selected rows
yearly_of(rows, tf, fn) ==
    LET start_month == ParseInt(Split(tf)[1])
        end_month == ParseInt(Split(tf)[Len(Split(tf))])
        time_agg_product == Resample(rows, start_month, fn)
        shifted == IF start_month > end_month
                   THEN ShiftLabels(time_agg_product)
                   ELSE time_agg_product
    IN  Resample(shifted, 1, "mean")

\* the yearly series compute() derives from the selection `data`
yearly(data, tf, fn) == yearly_of(AsFrac(data), tf, fn)

-----------------------------------------------------------------------------
(* Season labels of the precomputed indices *)

\* SEASON_TO_TIME_FILTER: (first month, last month, label)
SEASON_TO_TIME_FILTER ==
    { <<1, 12, "Annual">>,
      <<1, 1, "Jan">>, <<2, 2, "Feb">>, <<3, 3, "Mar">>, <<4, 4, "Apr">>,
      <<5, 5, "May">>, <<6, 6, "Jun">>, <<7, 7, "Jul">>, <<8, 8, "Aug">>,
      <<9, 9, "Sep">>, <<10, 10, "Oct">>, <<11, 11, "Nov">>, <<12, 12, "Dec">>,
      <<12, 2, "DecFeb">>, <<3, 5, "MarMay">>, <<6, 8, "JunAug">>,
      <<9, 11, "SepNov">> }

\* the key of a table entry, as the string the request carries
SeasonKey(e) == SeasonStr(e[1], e[2])

\* mutant: an unknown season mapped to the annual label by the lookup itself
get_time_filter_name_default(season) ==
    IF \E e \in SEASON_TO_TIME_FILTER : SeasonKey(e) = season
    THEN (CHOOSE e \in SEASON_TO_TIME_FILTER : SeasonKey(e) = season)[3]
    ELSE "Annual"

\* SEASON_TO_TIME_FILTER.get(season): the label, or None
get_time_filter_name(season) ==
    IF \E e \in SEASON_TO_TIME_FILTER : SeasonKey(e) = season
    THEN (CHOOSE e \in SEASON_TO_TIME_FILTER : SeasonKey(e) = season)[3]
    ELSE "None"

\* an array with a time_filter dimension: labels is the time_filter
\* coordinate, rows the timestamps with one value (or NaN) per label
IsIndex(da) == da.kind = "index"

\* da.sel(time_filter=label)
Column(da, label) ==
    [i \in 1..Len(da.rows) |-> [t |-> da.rows[i].t, v |-> da.rows[i].v[label]]]

\* mutant: the rows with a missing value kept
DropNaKeepAll(xs) == xs

\* .dropna(dim="time") of a single-region column
DropNa(xs) == LET Present(s) == ~IsNaN(s.v) IN SelectSeq(xs, Present)

-----------------------------------------------------------------------------
(* get_summary_stats *)

\* an optional value: None is the empty list
None == <<>>

Some(x) == <<x>>

\* var_info: the catalog, in its order, with (aggregation, long name) pairs
var_info ==
    << [name |-> "tas", aggs |-> << <<"mean", "mean temperature">> >>],
       [name |-> "tasmax",
        aggs |-> << <<"mean", "average maximum temperature">>,
                    <<"max", "maximum temperature">> >>],
       [name |-> "tasmin",
        aggs |-> << <<"mean", "average minimum temperature">>,
                    <<"min", "minimum temperature">> >>],
       [name |-> "pr",
        aggs |-> << <<"sum", "total precipitation">>,
                    <<"max", "maximum precipitation">> >>],
       [name |-> "fd", aggs |-> << <<"mean", "number of frost days">> >>],
       [name |-> "tr20",
        aggs |-> << <<"mean", "number of tropical nights (>20C)">> >>],
       [name |-> "tr25",
        aggs |-> << <<"mean", "number of warm tropical nights (>25C)">> >>],
       [name |-> "tx30", aggs |-> << <<"mean", "number of hot days (>30C)">> >>],
       [name |-> "tx35",
        aggs |-> << <<"mean", "number of very hot days (>35C)">> >>],
       [name |-> "tx40",
        aggs |-> << <<"mean", "number of extremely hot days (>40C)">> >>],
       [name |-> "r1mm", aggs |-> << <<"mean", "number of wet days (>=1mm)">> >>],
       [name |-> "r20mm",
        aggs |-> << <<"mean", "number of heavy precipitation days (>=20mm)">> >>],
       [name |-> "r95ptot",
        aggs |-> << <<"mean", "amount of precipitation from very wet days">> >>],
       [name |-> "sfcWind",
        aggs |-> << <<"mean", "wind speed">>, <<"max", "maximum wind speed">> >>] >>

\* var_info[name]
VarAggs(name) ==
    var_info[CHOOSE i \in 1..Len(var_info) : var_info[i].name = name].aggs

\* the unit of a variable: its units attribute, else the fallback table
UnitOf(var_name, da) ==
    IF da.units # "" THEN da.units
    ELSE IF var_name \in {"tas", "tasmax", "tasmin"} THEN "degC"
    ELSE IF var_name = "pr" THEN "mm"
    ELSE IF var_name = "sfcWind" THEN "km/h"
    ELSE IF var_name \in {"fd", "tr20", "tr25", "tx30", "tx35", "tx40",
                          "r1mm", "r20mm"} THEN "days"
    ELSE ""

\* next(d for d in datasets if internal_var in d.data_vars): its index, or 0
FindDataset(dss, var_name) ==
    IF \E i \in 1..Len(dss) : dss[i].var = var_name
    THEN CHOOSE i \in 1..Len(dss) :
            /\ dss[i].var = var_name
            /\ \A j \in 1..(i - 1) : dss[j].var # var_name
    ELSE 0

\* the tasks of one variable, one per aggregation in the listed order
TasksFor(var_name, da) ==
    LET aggs == VarAggs(var_name)
    IN  [k \in 1..Len(aggs) |->
            [da |-> da, var_name |-> var_name, unit |-> UnitOf(var_name, da),
             long_name |-> aggs[k][2], agg |-> aggs[k][1]]]

\* the loop over ordered_vars that fills tasks
RECURSIVE BuildTasks(_, _)
BuildTasks(dss, i) ==
    IF i > Len(var_info) THEN <<>>
    ELSE LET d == FindDataset(dss, var_info[i].name)
         IN  (IF d = 0 THEN <<>> ELSE TasksFor(var_info[i].name, dss[d].da))
                \o BuildTasks(dss, i + 1)

\* _calculate_variable_stats returns the 'filter not available' entry
FilterMissing(da, season) ==
    IsIndex(da) /\ get_time_filter_name(season) \notin da.labels

\* the series the yearly aggregate of a task is resampled from
TaskSelection(da, season) ==
    IF IsIndex(da)
    THEN DropNa(Column(da, get_time_filter_name(season)))
    ELSE sel_time_filter(da.series, ALL, season)

\* an exception leaves _calculate_variable_stats
CalcRaises(da, season, lib_raises) ==
    /\ ~FilterMissing(da, season)
    /\ \/ ~IsIndex(da) /\ SelRaises(da.series, ALL, season)
       \/ Len(TaskSelection(da, season)) = 0 /\ lib_raises

\* da_yearly
DaYearly(da, season, agg) ==
    IF IsIndex(da)
    THEN Resample(TaskSelection(da, season), 1, "mean")
    ELSE yearly(TaskSelection(da, season), season, agg)

\* xarray's mean(): the mean of the values that are not NaN, NaN if none
MeanSkipNa(xs) ==
    LET Present(x) == ~IsNaN(x)
        ys == SelectSeq(xs, Present)
    IN  IF Len(ys) = 0 THEN NaN ELSE Reduce("mean", ys)

\* target_val: the mean of the yearly series over params.period, None when
\* the period cannot be parsed or the mean is NaN
TargetVal(da_yearly, period) ==
    LET p == Split(period)
    IN  IF Len(p) # 2 \/ ~IsNumeric(p[1]) \/ ~IsNumeric(p[2]) THEN None
        ELSE LET In(s) == ParseInt(p[1]) <= s.t[1] /\ s.t[1] <= ParseInt(p[2])
                 m == MeanSkipNa(ValuesOf(SelectSeq(da_yearly, In)))
             IN  IF IsNaN(m) THEN None ELSE Some(m)

\* the first year of the trend
start_year == 1940

\* fewer points than this give no trend
MinTrendPoints == 10

\* da_yearly.sel(time=slice(str(start_year), None))
TrendSlice(da_yearly) ==
    LET From(s) == s.t[1] >= start_year IN SelectSeq(da_yearly, From)

\* x[mask], y[mask]: the points that are not NaN, x the 0-based position in
\* the slice
MaskedPoints(da_slice) ==
    LET pts == [i \in 1..Len(da_slice) |-> [x |-> Num(i - 1), y |-> da_slice[i].v]]
        Valid(p) == ~IsNaN(p.y)
    IN  SelectSeq(pts, Valid)

\* np.polyfit(x, y, 1)[0] for two points or more: the least-squares slope
Polyfit(pts) ==
    LET n == Num(Len(pts))
        sx == FracSum([i \in 1..Len(pts) |-> pts[i].x])
        sy == FracSum([i \in 1..Len(pts) |-> pts[i].y])
        sxy == FracSum([i \in 1..Len(pts) |-> FracMul(pts[i].x, pts[i].y)])
        sxx == FracSum([i \in 1..Len(pts) |-> FracMul(pts[i].x, pts[i].x)])
    IN  FracDiv(FracSub(FracMul(n, sxy), FracMul(sx, sy)),
                FracSub(FracMul(n, sxx), FracMul(sx, sx)))

\* what the fit of a line through a single point may give: the library
\* warns of the deficient rank and returns a slope of its choosing, NaN, or
\* raises, which calculate_trend turns into None
RankDeficientFits == {None, Some(NaN), Some(Num(0))}

\* calculate_trend(da_yearly), fit being the library's answer to a
\* rank-deficient system
calculate_trend(da_yearly, fit) ==
    LET da_slice == TrendSlice(da_yearly)
        pts == MaskedPoints(da_slice)
    IN  IF Len(da_slice) < MinTrendPoints THEN None
        ELSE IF Len(pts) = 0 THEN None
        ELSE IF Len(pts) = 1 THEN fit
        ELSE Some(FracMul(Polyfit(pts), Num(10)))

\* the fixed reference window
ref_start == 1991

ref_end == 2020

\* the key of the reference window in the maps of an entry
ref_period == "1991_2020"

\* an empty dict
EmptyDict == <<>>

\* the values of a series that are not NaN
NotNaN(xs) == LET Present(x) == ~IsNaN(x) IN SelectSeq(xs, Present)

\* the values in ascending order
RECURSIVE SortFracs(_)
SortFracs(xs) ==
    IF Len(xs) = 0 THEN <<>>
    ELSE LET m == CHOOSE i \in 1..Len(xs) :
                    /\ \A j \in 1..Len(xs) : ~FracLess(xs[j], xs[i])
                    /\ \A j \in 1..(i - 1) : FracLess(xs[i], xs[j])
         IN  <<xs[m]>> \o SortFracs([k \in 1..(Len(xs) - 1) |->
                                       IF k < m THEN xs[k] ELSE xs[k + 1]])

\* .quantile(num / den): NaNs skipped, linear interpolation between the two
\* nearest ranks; NaN when no value is left
Quantile(xs, num, den) ==
    LET v == SortFracs(NotNaN(xs))
        n == Len(v)
        lo == ((n - 1) * num) \div den
        rest == Frac((n - 1) * num - lo * den, den)
    IN  IF n = 0 THEN NaN
        ELSE IF lo + 1 >= n THEN v[n]
        ELSE FracAdd(v[lo + 1], FracMul(rest, FracSub(v[lo + 2], v[lo + 1])))

\* .max() / .min(): NaNs skipped, NaN when no value is left
MaxSkipNa(xs) == IF Len(NotNaN(xs)) = 0 THEN NaN ELSE Reduce("max", NotNaN(xs))

MinSkipNa(xs) == IF Len(NotNaN(xs)) = 0 THEN NaN ELSE Reduce("min", NotNaN(xs))

\* x if not np.isnan(x) else None
NoneIfNaN(x) == IF IsNaN(x) THEN None ELSE Some(x)

\* mutant: the samples not above the target counted
PercentileRankInclusive(ref_values, target_value) ==
    LET Below(x) == ~FracLess(target_value, x)
    IN  Frac(100 * Len(SelectSeq(ref_values, Below)), Len(ref_values))

\* (ref_values < target_value).sum() / len(ref_values) * 100
PercentileRank(ref_values, target_value) ==
    LET Below(x) == FracLess(x, target_value)
    IN  Frac(100 * Len(SelectSeq(ref_values, Below)), Len(ref_values))

\* mutant: the statistics of an empty window are returned as nulls
get_ref_stats_nulls(da_yearly, target_value) ==
    LET InRef(s) == ref_start <= s.t[1] /\ s.t[1] <= ref_end
        ref_da == ValuesOf(SelectSeq(da_yearly, InRef))
    IN  [mean |-> NoneIfNaN(MeanSkipNa(ref_da)),
         max |-> NoneIfNaN(MaxSkipNa(ref_da)),
         min |-> NoneIfNaN(MinSkipNa(ref_da)),
         percentiles |->
             [p10 |-> NoneIfNaN(Quantile(ref_da, 10, 100)),
              p90 |-> NoneIfNaN(Quantile(ref_da, 90, 100)),
              p95 |-> NoneIfNaN(Quantile(ref_da, 95, 100))]]

\* get_ref_stats(da_yearly, target_value): the dict of the reference
\* window, empty when the window holds no entry
get_ref_stats(da_yearly, target_value) ==
    LET InRef(s) == ref_start <= s.t[1] /\ s.t[1] <= ref_end
        ref_da == ValuesOf(SelectSeq(da_yearly, InRef))
        res == [mean |-> NoneIfNaN(MeanSkipNa(ref_da)),
                max |-> NoneIfNaN(MaxSkipNa(ref_da)),
                min |-> NoneIfNaN(MinSkipNa(ref_da)),
                percentiles |->
                    [p10 |-> NoneIfNaN(Quantile(ref_da, 10, 100)),
                     p90 |-> NoneIfNaN(Quantile(ref_da, 90, 100)),
                     p95 |-> NoneIfNaN(Quantile(ref_da, 95, 100))]]
    IN  IF Len(ref_da) = 0 THEN EmptyDict
        ELSE IF target_value # None /\ Len(NotNaN(ref_da)) > 0
        THEN [mean |-> res.mean, max |-> res.max, min |-> res.min,
              percentiles |-> res.percentiles,
              percentile_rank |-> PercentileRank(NotNaN(ref_da), target_value[1])]
        ELSE res

\* a dict with the single key of the reference window
RefDict(x) == ref_period :> x

\* mutant: a null stored where the percentage has no value
PercOfNull(target_val, ref_val) ==
    IF target_val # None /\ ref_val # None /\ ref_val[1] # Num(0)
    THEN RefDict(FracMul(FracDiv(FracSub(target_val[1], ref_val[1]),
                                 <<Abs(ref_val[1][1]), ref_val[1][2]>>),
                         Num(100)))
    ELSE RefDict(None)

\* anomalies_as_perc: the key is written with the percentage, with None
\* when an operand is missing, and not at all when the reference mean is 0
PercOf(target_val, ref_val) ==
    IF target_val # None /\ ref_val # None
    THEN IF ref_val[1] # Num(0)
         THEN RefDict(FracMul(FracDiv(FracSub(target_val[1], ref_val[1]),
                                      <<Abs(ref_val[1][1]), ref_val[1][2]>>),
                              Num(100)))
         ELSE EmptyDict
    ELSE RefDict(None)

\* anomalies
AnomalyOf(target_val, ref_val) ==
    IF target_val # None /\ ref_val # None
    THEN RefDict(FracSub(target_val[1], ref_val[1]))
    ELSE RefDict(None)

\* lines 170-222 of _calculate_variable_stats: the entry derived from
\* da_yearly
EntryOf(task, da_yearly, period, fit) ==
    LET target_val == TargetVal(da_yearly, period)
        ref_stats == get_ref_stats(da_yearly, target_val)
        has_ref == ref_stats # EmptyDict
    IN  [long_name |-> task.long_name,
         unit |-> task.unit,
         value |-> target_val,
         anomalies |->
            IF has_ref THEN AnomalyOf(target_val, ref_stats.mean) ELSE EmptyDict,
         anomalies_as_perc |->
            IF has_ref THEN PercOf(target_val, ref_stats.mean) ELSE EmptyDict,
         ref_means |-> IF has_ref THEN RefDict(ref_stats.mean) ELSE EmptyDict,
         ref_maxs |-> IF has_ref THEN RefDict(ref_stats.max) ELSE EmptyDict,
         ref_mins |-> IF has_ref THEN RefDict(ref_stats.min) ELSE EmptyDict,
         ref_percentiles |->
            IF has_ref THEN RefDict(ref_stats.percentiles) ELSE EmptyDict,
         trend |-> calculate_trend(da_yearly, fit)]

\* the answers the library may give to the fit of a task: a choice only
\* when the fit is rank-deficient
TaskFits(task, pars) ==
    IF FilterMissing(task.da, pars.season_filter) THEN {None}
    ELSE LET da_slice ==
                 TrendSlice(DaYearly(task.da, pars.season_filter, task.agg))
         IN  IF /\ Len(da_slice) >= MinTrendPoints
                /\ Len(MaskedPoints(da_slice)) = 1
             THEN RankDeficientFits
             ELSE {None}

\* the (short_name, var_stats) pair a task returns
CalcResult(task, pars, fit) ==
    IF FilterMissing(task.da, pars.season_filter)
    THEN <<task.var_name,
           [error |-> <<"Filter", pars.season_filter,
                        "not available for index", task.var_name>>]>>
    ELSE <<task.var_name,
           EntryOf(task, DaYearly(task.da, pars.season_filter, task.agg),
                   pars.period, fit)>>

\* the aggregation whose long name produced the result ("" when none does)
AggType(short_name, long_name) ==
    LET aggs == VarAggs(short_name)
    IN  IF \E k \in 1..Len(aggs) : aggs[k][2] = long_name
        THEN aggs[CHOOSE k \in 1..Len(aggs) :
                    /\ aggs[k][2] = long_name
                    /\ \A j \in 1..(k - 1) : aggs[j][2] # long_name][1]
        ELSE ""

\* mutant: the bare variable name for every task
StatIdBare(short_name, long_name) == short_name

StatId(short_name, long_name) ==
    IF short_name \in {"tasmax", "tasmin", "pr", "sfcWind"}
         /\ Len(VarAggs(short_name)) > 1
    THEN short_name \o "_" \o AggType(short_name, long_name)
    ELSE short_name

\* stats_dict[key] = entry
Put(d, key, entry) ==
    IF \E i \in 1..Len(d) : d[i].key = key
    THEN [i \in 1..Len(d) |->
            IF d[i].key = key THEN [key |-> key, entry |-> entry] ELSE d[i]]
    ELSE Append(d, [key |-> key, entry |-> entry])

\* var_stats["long_name"] raises KeyError
LookupRaises(var_stats) == "long_name" \notin DOMAIN var_stats

\* the loop over results, up to its end or to the first result it raises on
RECURSIVE MergeFrom(_, _, _)
MergeFrom(res, i, d) ==
    IF i > Len(res) \/ LookupRaises(res[i][2]) THEN d
    ELSE LET short_name == res[i][1]
             var_stats == res[i][2]
             stat_id == StatId(short_name, var_stats.long_name)
         IN  MergeFrom(res, i + 1,
                       Put(d, stat_id,
                           [variable |-> short_name, id |-> stat_id]
                               @@ var_stats))

MergeRaises(res) == \E i \in 1..Len(res) : LookupRaises(res[i][2])

\* mutant: results taken in the order the tasks complete
NextResultAsCompleted(n, fin) == IF n < Len(fin) THEN fin[n + 1] ELSE n + 1

\* executor.map yields the results in the order of submission: the task whose
\* result the orchestrator takes after it has taken n
NextResult(n, fin) == n + 1

-----------------------------------------------------------------------------
(* Specification of the temporal filter *)

\* the summary engine is not running
SsIdle ==
    /\ datasets = <<>>
    /\ params = [period |-> <<>>, season_filter |-> <<>>]
    /\ empty_raises = FALSE
    /\ ss_pc = "idle"
    /\ tasks = <<>>
    /\ task_state = <<>>
    /\ task_result = <<>>
    /\ finished = <<>>
    /\ results = <<>>
    /\ stats_dict = <<>>
    /\ ss_outcome = "none"

\* no precomputed index is being selected from
CatIdle ==
    /\ cat_da = [kind |-> "index", units |-> "", labels |-> {}, rows |-> <<>>]
    /\ cat_season = <<>>
    /\ cat_pc = "idle"
    /\ cat_outcome = "none"
    /\ cat_label = ""
    /\ cat_warned = FALSE
    /\ cat_selected = <<>>

\* no single-array engine is serving a request
EngIdle ==
    /\ eng_dataset = <<>>
    /\ eng_params = [period |-> <<>>, reference_period |-> <<>>,
                     season_filter |-> <<>>, anomaly |-> FALSE]
    /\ eng_lib = FALSE
    /\ eng_pc = "idle"
    /\ eng_name = ""
    /\ eng_outcome = "none"
    /\ eng_error = <<>>
    /\ eng_ds = <<>>
    /\ eng_steps = <<>>
    /\ eng_data = <<>>
    /\ eng_ref = <<>>

TfInit ==
    /\ LaterIdle
    /\ SsIdle
    /\ CatIdle
    /\ EngIdle
    /\ dataset \in Series
    /\ period_range = <<>>
    /\ time_filter = <<>>
    /\ statistical = "mean"
    /\ tf_pc = "new"
    /\ tf_outcome = "none"
    /\ data_for_period = <<>>
    /\ yearly_data = <<>>

\* TemporalFiltering(dataset, period, season).sel_time_filter()
SelTimeFilter ==
    /\ tf_pc = "new"
    /\ \E pr \in Periods, tf \in Seasons :
        /\ period_range' = pr
        /\ time_filter' = tf
        /\ tf_pc' = "sel_time_filter"
        /\ IF SelRaises(dataset, pr, tf)
           THEN tf_outcome' = "error" /\ data_for_period' = <<>>
           ELSE /\ tf_outcome' = "ok"
                /\ data_for_period' = sel_time_filter(dataset, pr, tf)
    /\ UNCHANGED <<dataset, statistical, yearly_data, ssVars, catVars, engVars, laterVars>>

\* what resampling an empty selection does is left to the array library:
\* it may return an empty series or raise
EmptyResample == {"ok", "error"}

\* TemporalFiltering(dataset, period, season, statistical).compute()
Compute ==
    /\ tf_pc = "new"
    /\ \E pr \in Periods, tf \in Seasons, fn \in Statistics :
        /\ period_range' = pr
        /\ time_filter' = tf
        /\ statistical' = fn
        /\ tf_pc' = "compute"
        /\ IF SelRaises(dataset, pr, tf)
           THEN /\ tf_outcome' = "error"
                /\ data_for_period' = <<>>
                /\ yearly_data' = <<>>
           ELSE \E data \in {sel_time_filter(dataset, pr, tf)} :
                /\ data_for_period' = data
                /\ yearly_data' = yearly(data, tf, fn)
                /\ IF Len(data) = 0
                   THEN tf_outcome' \in EmptyResample
                   ELSE tf_outcome' = "ok"
    /\ UNCHANGED <<dataset, ssVars, catVars, engVars, laterVars>>

TfNext == SelTimeFilter \/ Compute

SpecFilter == TfInit /\ [][TfNext]_vars

-----------------------------------------------------------------------------
(* Specification of the summary engine *)

\* the catalog variables the input datasets hold, and their arrays: raw
\* daily data for the base variables, a precomputed index for fd
SsDates == {<<2000, 1, 1>>, <<2000, 12, 1>>}

NumericArrays ==
    {[kind |-> "numeric", units |-> "", series |-> SeriesOver(D)] :
        D \in {X \in SUBSET SsDates : Cardinality(X) <= 1}}

IndexArrays ==
    { [kind |-> "index", units |-> "", labels |-> {"Annual"},
       rows |-> << [t |-> <<2000, 1, 1>>, v |-> [l \in {"Annual"} |-> Num(3)]] >>] }
    \cup
    { [kind |-> "index", units |-> "", labels |-> {"Annual", "Jan"},
       rows |-> << [t |-> <<2000, 1, 1>>,
                    v |-> [l \in {"Annual", "Jan"} |->
                             IF l = "Annual" THEN Num(3) ELSE x]] >>] :
        x \in {Num(5), NaN} }

InputVars == {"tas", "tasmax", "fd"}

\* daily data that begins after the reference window
LateArray ==
    [kind |-> "numeric", units |-> "", series |-> SeriesOver({<<2021, 1, 1>>})]

\* the arrays a variable comes with: every numeric array for tas, the late
\* one included, an empty and a non-empty one for the others
ArraysOf(var_name) ==
    IF var_name = "fd" THEN IndexArrays
    ELSE IF var_name = "tas" THEN NumericArrays \cup {LateArray}
    ELSE {da \in NumericArrays :
            \A i \in 1..Len(da.series) : da.series[i].t = <<2000, 1, 1>>}

\* the position of a variable in the catalog
CatalogIndex(var_name) ==
    CHOOSE i \in 1..Len(var_info) : var_info[i].name = var_name

\* lists of at most n datasets, each holding one catalog variable, no
\* variable twice; the lists are in the reverse of the catalog order, so
\* that the order of the tasks is not the order of the input
CatalogLists(n) ==
    UNION { { dss \in [1..k -> [var : InputVars,
                                da : NumericArrays \cup IndexArrays
                                        \cup {LateArray}]] :
                /\ \A i \in 1..k : dss[i].da \in ArraysOf(dss[i].var)
                /\ \A i \in 1..k, j \in 1..k :
                      i < j => CatalogIndex(dss[i].var) > CatalogIndex(dss[j].var) } :
            k \in 0..n }

\* a dataset whose data variable is none of the '<name>_None' the catalog
\* looks for: get_datasets leaves a loaded dataset unrenamed when the
\* store lacks the variable name, and falls back to whatever the mapping
\* holds
OtherDataset ==
    [var |-> "other",
     da |-> [kind |-> "numeric", units |-> "", series |-> SeriesOver({<<2000, 1, 1>>})]]

\* get_datasets raises instead of returning an empty list
GetDatasetsRaises(loaded) == Len(loaded) = 0

\* the lists of at most MaxVars datasets get_summary_stats is called with,
\* the empty one included
DatasetLists ==
    CatalogLists(MaxVars)
    \cup { <<OtherDataset>> \o dss : dss \in CatalogLists(1) }

\* season_filter values: mapped ones, a well-formed one the table lacks, and
\* one without a dash
SsSeasons == {SeasonStr(1, 12), SeasonStr(1, 1), SeasonStr(1, 2), <<"1", "2">>}

\* period values: a well-formed one, 'all', and one without a dash
SsPeriods == {PeriodStr(2000, 2021), ALL, IntToStr(2000)}

\* the temporal filter object is not in use
TfIdle ==
    /\ dataset = <<>>
    /\ period_range = <<>>
    /\ time_filter = <<>>
    /\ statistical = "mean"
    /\ tf_pc = "idle"
    /\ tf_outcome = "none"
    /\ data_for_period = <<>>
    /\ yearly_data = <<>>

SsInit ==
    /\ LaterIdle
    /\ TfIdle
    /\ CatIdle
    /\ EngIdle
    /\ datasets \in DatasetLists
    /\ params \in [period : SsPeriods, season_filter : SsSeasons]
    /\ empty_raises \in BOOLEAN
    /\ ss_pc = "start"
    /\ tasks = <<>>
    /\ task_state = <<>>
    /\ task_result = <<>>
    /\ finished = <<>>
    /\ results = <<>>
    /\ stats_dict = <<>>
    /\ ss_outcome = "none"

\* lines 253-319: the tasks are built and handed to the pool; without tasks
\* the empty map is returned
Prepare ==
    /\ ss_pc = "start"
    /\ tasks' = BuildTasks(datasets, 1)
    /\ task_state' = [i \in 1..Len(tasks') |-> "queued"]
    /\ task_result' = [i \in 1..Len(tasks') |-> <<>>]
    /\ IF Len(tasks') = 0
       THEN ss_pc' = "done" /\ ss_outcome' = "returned"
       ELSE ss_pc' = "pool" /\ ss_outcome' = "none"
    /\ UNCHANGED <<datasets, params, empty_raises, finished, results,
                   stats_dict, tfVars, catVars, engVars, laterVars>>

Running == {i \in 1..Len(tasks) : task_state[i] = "running"}

\* a worker thread takes the task at the head of the pool's queue
StartTask(i) ==
    /\ ss_pc \in {"pool", "failing"}
    /\ task_state[i] = "queued"
    /\ \A j \in 1..(i - 1) : task_state[j] # "queued"
    /\ Cardinality(Running) < Workers
    /\ task_state' = [task_state EXCEPT ![i] = "running"]
    /\ UNCHANGED <<datasets, params, empty_raises, ss_pc, tasks, task_result,
                   finished, results, stats_dict, ss_outcome, tfVars, catVars, engVars, laterVars>>

\* a worker thread ends _calculate_variable_stats: it returned or raised
FinishTask(i) ==
    /\ ss_pc \in {"pool", "failing"}
    /\ task_state[i] = "running"
    /\ IF CalcRaises(tasks[i].da, params.season_filter, empty_raises)
       THEN /\ task_state' = [task_state EXCEPT ![i] = "raised"]
            /\ UNCHANGED task_result
       ELSE /\ task_state' = [task_state EXCEPT ![i] = "done"]
            /\ \E fit \in TaskFits(tasks[i], params) :
                  task_result' =
                      [task_result EXCEPT ![i] = CalcResult(tasks[i], params, fit)]
    /\ finished' = Append(finished, i)
    /\ UNCHANGED <<datasets, params, empty_raises, ss_pc, tasks, results,
                   stats_dict, ss_outcome, tfVars, catVars, engVars, laterVars>>

\* list(executor.map(...)): the orchestrator takes the next result; the
\* exception of a task that raised is raised again here, and the tasks not
\* yet started are cancelled
Collect ==
    /\ ss_pc = "pool"
    /\ Len(results) < Len(tasks)
    /\ LET k == NextResult(Len(results), finished)
       IN  /\ task_state[k] \in {"done", "raised"}
           /\ IF task_state[k] = "done"
              THEN /\ results' = Append(results, task_result[k])
                   /\ UNCHANGED <<ss_pc, task_state>>
              ELSE /\ ss_pc' = "failing"
                   /\ task_state' =
                        [i \in 1..Len(tasks) |->
                            IF task_state[i] = "queued" THEN "cancelled"
                            ELSE task_state[i]]
                   /\ UNCHANGED results
    /\ UNCHANGED <<datasets, params, empty_raises, tasks, task_result,
                   finished, stats_dict, ss_outcome, tfVars, catVars, engVars, laterVars>>

\* lines 323-350: the loop over the gathered results fills stats_dict and the
\* map is returned, unless a lookup in the loop raises
Merge ==
    /\ ss_pc = "pool"
    /\ Len(results) = Len(tasks)
    /\ stats_dict' = MergeFrom(results, 1, <<>>)
    /\ ss_pc' = "done"
    /\ ss_outcome' = IF MergeRaises(results) THEN "error" ELSE "returned"
    /\ UNCHANGED <<datasets, params, empty_raises, tasks, task_state,
                   task_result, finished, results, tfVars, catVars, engVars, laterVars>>

\* the pool is shut down once its running tasks have ended, and the
\* exception leaves get_summary_stats
Propagate ==
    /\ ss_pc = "failing"
    /\ Running = {}
    /\ ss_pc' = "done"
    /\ ss_outcome' = "error"
    /\ UNCHANGED <<datasets, params, empty_raises, tasks, task_state,
                   task_result, finished, results, stats_dict, tfVars, catVars, engVars, laterVars>>

SsNext ==
    \/ Prepare
    \/ \E i \in 1..Len(tasks) : StartTask(i)
    \/ \E i \in 1..Len(tasks) : FinishTask(i)
    \/ Collect
    \/ Merge
    \/ Propagate

SpecSummary == SsInit /\ [][SsNext]_vars

-----------------------------------------------------------------------------
(* handle_precomputed_time_filter *)

\* tf_name after the fallback
PrecomputedLabel(da, season_filter) ==
    IF get_time_filter_name(season_filter) \notin da.labels
    THEN "Annual"
    ELSE get_time_filter_name(season_filter)

\* the fallback is taken, and logged as a warning
PrecomputedWarns(da, season_filter) ==
    get_time_filter_name(season_filter) \notin da.labels

\* da.sel(time_filter=tf_name) raises KeyError
PrecomputedRaises(da, season_filter) ==
    PrecomputedLabel(da, season_filter) \notin da.labels

handle_precomputed_time_filter(da, season_filter) ==
    DropNa(Column(da, PrecomputedLabel(da, season_filter)))

\* the season labels and timestamps the index arrays are built from
CatLabels == {"Annual", "Jan", "DecFeb"}

CatTimes == {<<2000, 1, 1>>, <<2000, 3, 1>>, <<2000, 12, 1>>}

\* the value stored in a cell when it is not missing: different in every cell
CellValue(t, l) ==
    Num(10 * t[2] + (CASE l = "Annual" -> 1 [] l = "Jan" -> 2 [] OTHER -> 3))

\* every index array of at most MaxRows timestamps over these labels, each
\* cell holding its value or NaN
CatArrays ==
    UNION { { [kind |-> "index", units |-> "", labels |-> L,
               rows |-> [i \in 1..Len(SortedSeq(T)) |->
                           [t |-> SortedSeq(T)[i],
                            v |-> [l \in L |->
                                     IF <<SortedSeq(T)[i], l>> \in P
                                     THEN CellValue(SortedSeq(T)[i], l)
                                     ELSE NaN]]]] :
              P \in SUBSET (T \X L) } :
            <<T, L>> \in {X \in SUBSET CatTimes : Cardinality(X) <= MaxRows}
                            \X (SUBSET CatLabels \ {{}}) }

\* season_filter values: three mapped ones and one the table lacks
CatSeasons ==
    {SeasonStr(1, 12), SeasonStr(1, 1), SeasonStr(12, 2), SeasonStr(1, 2)}

CatInit ==
    /\ LaterIdle
    /\ TfIdle
    /\ SsIdle
    /\ EngIdle
    /\ cat_da \in CatArrays
    /\ cat_season \in CatSeasons
    /\ cat_pc = "new"
    /\ cat_outcome = "none"
    /\ cat_label = ""
    /\ cat_warned = FALSE
    /\ cat_selected = <<>>

HandlePrecomputed ==
    /\ cat_pc = "new"
    /\ cat_pc' = "done"
    /\ cat_label' = PrecomputedLabel(cat_da, cat_season)
    /\ cat_warned' = PrecomputedWarns(cat_da, cat_season)
    /\ IF PrecomputedRaises(cat_da, cat_season)
       THEN cat_outcome' = "error" /\ cat_selected' = <<>>
       ELSE /\ cat_outcome' = "ok"
            /\ cat_selected' = handle_precomputed_time_filter(cat_da, cat_season)
    /\ UNCHANGED <<cat_da, cat_season, tfVars, ssVars, engVars, laterVars>>

CatNext == HandlePrecomputed

SpecCat == CatInit /\ [][CatNext]_vars

-----------------------------------------------------------------------------
(* The engines that work on a single array *)

\* the head of the message of the 'multiple datasets' error
MultipleDatasets == "Multiple datasets not supported"

\* mutant: the first array returned whatever the length of the list
get_single_dataset_first(dss) ==
    IF Len(dss) = 0
    THEN [raises |-> TRUE, error |-> <<"IndexError">>, value |-> None]
    ELSE [raises |-> FALSE, error |-> <<>>, value |-> Some(dss[1])]

\* get_single_dataset: ValueError for more than one array, dataset[0]
\* otherwise, which raises IndexError on the empty list
get_single_dataset(dss) ==
    IF Len(dss) > 1
    THEN [raises |-> TRUE, error |-> <<MultipleDatasets, "for this operation">>,
          value |-> None]
    ELSE IF Len(dss) = 0
    THEN [raises |-> TRUE, error |-> <<"IndexError">>, value |-> None]
    ELSE [raises |-> FALSE, error |-> <<>>, value |-> Some(dss[1])]

\* mutant: the end year left out of the slice
filter_by_period_open_end(xs, period) ==
    IF period = ALL THEN xs
    ELSE LET In(s) == /\ ParseInt(Split(period)[1]) <= s.t[1]
                      /\ s.t[1] < ParseInt(Split(period)[2])
         IN  SelectSeq(xs, In)

\* filter_by_period raises: the period is not 'all' and does not unpack into
\* two parts, or a part is not a year the time index can parse
FilterByPeriodRaises(period) ==
    /\ period # ALL
    /\ \/ Len(Split(period)) # 2
       \/ ~IsNumeric(Split(period)[1])
       \/ ~IsNumeric(Split(period)[2])

\* filter_by_period: da.sel(time=slice(start, end)), the years start..end
\* inclusive, or the copy of da for 'all'
filter_by_period(xs, period) ==
    IF period = ALL THEN xs
    ELSE LET In(s) == /\ ParseInt(Split(period)[1]) <= s.t[1]
                      /\ s.t[1] <= ParseInt(Split(period)[2])
         IN  SelectSeq(xs, In)

\* da_raw.sel(time=slice(*period.split("-"))) raises: a part is not a year,
\* or a third part is taken as the step of the slice
AnnualSliceRaises(period) ==
    \/ Len(Split(period)) > 2
    \/ \E i \in 1..Len(Split(period)) : ~IsNumeric(Split(period)[i])

\* da_raw.sel(time=slice(*period.split("-"))): a single part is the end of
\* the slice, whose start is then open
AnnualSlice(xs, period) ==
    LET p == Split(period)
        In(s) == IF Len(p) = 1 THEN s.t[1] <= ParseInt(p[1])
                 ELSE ParseInt(p[1]) <= s.t[1] /\ s.t[1] <= ParseInt(p[2])
    IN  SelectSeq(xs, In)

\* what a request ends with
Failed(error, ds, steps) ==
    [outcome |-> "error", error |-> error, ds |-> ds, steps |-> steps,
     data |-> <<>>, ref |-> <<>>]

\* the figures are derived from the selections; the library may raise when a
\* selection is empty
Derived(ds, steps, data, ref, empty, lib) ==
    [outcome |-> IF empty /\ lib THEN "error" ELSE "returned",
     error |-> IF empty /\ lib THEN <<"empty selection">> ELSE <<>>,
     ds |-> ds, steps |-> steps, data |-> data, ref |-> ref]

\* get_extreme_values
get_extreme_values(dss, pars, lib) ==
    LET got == get_single_dataset(dss)
        da == got.value[1]
        period == pars.period
        season == pars.season_filter
    IN  IF got.raises THEN Failed(got.error, None, <<>>)
        ELSE IF IsIndex(da)
        THEN IF PrecomputedRaises(da, season)
             THEN Failed(<<"KeyError">>, got.value,
                         <<"handle_precomputed_time_filter">>)
             ELSE IF FilterByPeriodRaises(period)
             THEN Failed(<<"filter_by_period">>, got.value,
                         <<"handle_precomputed_time_filter", "filter_by_period">>)
             ELSE LET data == filter_by_period(
                                handle_precomputed_time_filter(da, season), period)
                  IN  Derived(got.value,
                              <<"handle_precomputed_time_filter", "filter_by_period">>,
                              data, <<>>, Len(data) = 0, lib)
        ELSE IF SelRaises(da.series, period, season)
             THEN Failed(<<"sel_time_filter">>, got.value, <<"sel_time_filter">>)
             ELSE LET data == sel_time_filter(da.series, period, season)
                  IN  Derived(got.value, <<"sel_time_filter">>, data, <<>>,
                              Len(data) = 0, lib)

\* get_histograms
get_histograms(dss, pars, lib) ==
    LET got == get_single_dataset(dss)
        da == got.value[1]
        period == pars.period
        reference == pars.reference_period
        season == pars.season_filter
    IN  IF got.raises THEN Failed(got.error, None, <<>>)
        ELSE IF IsIndex(da)
        THEN IF PrecomputedRaises(da, season)
             THEN Failed(<<"KeyError">>, got.value,
                         <<"handle_precomputed_time_filter">>)
             ELSE IF FilterByPeriodRaises(period)
             THEN Failed(<<"filter_by_period">>, got.value,
                         <<"handle_precomputed_time_filter", "filter_by_period">>)
             ELSE IF FilterByPeriodRaises(reference)
             THEN Failed(<<"filter_by_period">>, got.value,
                         <<"handle_precomputed_time_filter", "filter_by_period",
                           "filter_by_period">>)
             ELSE LET da_season == handle_precomputed_time_filter(da, season)
                      data == filter_by_period(da_season, period)
                      ref == filter_by_period(da_season, reference)
                  IN  Derived(got.value,
                              <<"handle_precomputed_time_filter", "filter_by_period",
                                "filter_by_period">>,
                              data, ref, Len(data) = 0 \/ Len(ref) = 0, lib)
        ELSE IF SelRaises(da.series, period, season)
             THEN Failed(<<"sel_time_filter">>, got.value, <<"sel_time_filter">>)
             ELSE IF SelRaises(da.series, reference, season)
             THEN Failed(<<"sel_time_filter">>, got.value,
                         <<"sel_time_filter", "sel_time_filter">>)
             ELSE LET data == sel_time_filter(da.series, period, season)
                      ref == sel_time_filter(da.series, reference, season)
                  IN  Derived(got.value, <<"sel_time_filter", "sel_time_filter">>,
                              data, ref, Len(data) = 0 \/ Len(ref) = 0, lib)

\* get_climatology_map, with the default resample_freq (none) and
\* season_filter_func (mean)
get_climatology_map(dss, pars, lib) ==
    LET got == get_single_dataset(dss)
        da == got.value[1]
        period == pars.period
        reference == pars.reference_period
        season == pars.season_filter
    IN  IF got.raises THEN Failed(got.error, None, <<>>)
        ELSE IF IsIndex(da)
        THEN IF PrecomputedRaises(da, season)
             THEN Failed(<<"KeyError">>, got.value,
                         <<"handle_precomputed_time_filter">>)
             ELSE IF FilterByPeriodRaises(period)
             THEN Failed(<<"filter_by_period">>, got.value,
                         <<"handle_precomputed_time_filter", "filter_by_period">>)
             ELSE IF ~pars.anomaly
             THEN Derived(got.value,
                          <<"handle_precomputed_time_filter", "filter_by_period">>,
                          filter_by_period(
                              handle_precomputed_time_filter(da, season), period),
                          <<>>, FALSE, lib)
             ELSE IF FilterByPeriodRaises(reference)
             THEN Failed(<<"filter_by_period">>, got.value,
                         <<"handle_precomputed_time_filter", "filter_by_period",
                           "handle_precomputed_time_filter", "filter_by_period">>)
             ELSE Derived(got.value,
                          <<"handle_precomputed_time_filter", "filter_by_period",
                            "handle_precomputed_time_filter", "filter_by_period">>,
                          filter_by_period(
                              handle_precomputed_time_filter(da, season), period),
                          filter_by_period(
                              handle_precomputed_time_filter(da, season), reference),
                          FALSE, lib)
        ELSE IF SelRaises(da.series, period, season)
             THEN Failed(<<"compute">>, got.value, <<"compute">>)
             ELSE IF ~pars.anomaly
             THEN LET data == sel_time_filter(da.series, period, season)
                  IN  Derived(got.value, <<"compute">>,
                              yearly(data, season, "mean"), <<>>,
                              Len(data) = 0, lib)
             ELSE IF SelRaises(da.series, reference, season)
             THEN Failed(<<"compute">>, got.value, <<"compute", "compute">>)
             ELSE LET data == sel_time_filter(da.series, period, season)
                      ref == sel_time_filter(da.series, reference, season)
                  IN  Derived(got.value, <<"compute", "compute">>,
                              yearly(data, season, "mean"),
                              yearly(ref, season, "mean"),
                              Len(data) = 0 \/ Len(ref) = 0, lib)

\* get_annual_cycle: its own check of the list, no index arrays, and the two
\* slices of the raw series
get_annual_cycle(dss, pars, lib) ==
    IF Len(dss) > 1
    THEN Failed(<<MultipleDatasets, "for annual cycle calculation">>, None, <<>>)
    ELSE IF Len(dss) = 0 THEN Failed(<<"IndexError">>, None, <<>>)
    ELSE IF IsIndex(dss[1])
    THEN Failed(<<"NotImplementedError">>, Some(dss[1]), <<>>)
    ELSE IF AnnualSliceRaises(pars.period)
    THEN Failed(<<"sel">>, Some(dss[1]), <<"sel">>)
    ELSE IF AnnualSliceRaises(pars.reference_period)
    THEN Failed(<<"sel">>, Some(dss[1]), <<"sel", "sel">>)
    ELSE LET data == AnnualSlice(dss[1].series, pars.period)
             ref == AnnualSlice(dss[1].series, pars.reference_period)
         IN  Derived(Some(dss[1]), <<"sel", "sel">>, data, ref,
                     Len(data) = 0 \/ Len(ref) = 0, lib)

\* the lists of at most MaxDatasets arrays a request may carry
EngDatasets ==
    UNION { [1..n -> NumericArrays \cup IndexArrays] : n \in 0..MaxDatasets }

\* period values: well-formed, 'all', without a dash, with parts that are
\* not numbers
EngPeriods == {PeriodStr(2000, 2000), ALL, IntToStr(2000), <<"a", "-", "b">>}

EngReferences == {PeriodStr(1999, 2000), IntToStr(2000)}

EngSeasons == {SeasonStr(1, 12), SeasonStr(1, 1), SeasonStr(1, 2)}

\* none of the engines and filters above is in use
BaseIdle == TfIdle /\ SsIdle /\ CatIdle /\ EngIdle

EngInit ==
    /\ LaterIdle
    /\ TfIdle
    /\ SsIdle
    /\ CatIdle
    /\ eng_dataset \in EngDatasets
    /\ eng_params \in [period : EngPeriods, reference_period : EngReferences,
                       season_filter : EngSeasons, anomaly : BOOLEAN]
    /\ eng_lib \in BOOLEAN
    /\ eng_pc = "new"
    /\ eng_name = ""
    /\ eng_outcome = "none"
    /\ eng_error = <<>>
    /\ eng_ds = <<>>
    /\ eng_steps = <<>>
    /\ eng_data = <<>>
    /\ eng_ref = <<>>

\* the request is served by an engine and ends with r
Serve(name, r) ==
    /\ eng_pc = "new"
    /\ eng_pc' = "done"
    /\ eng_name' = name
    /\ eng_outcome' = r.outcome
    /\ eng_error' = r.error
    /\ eng_ds' = r.ds
    /\ eng_steps' = r.steps
    /\ eng_data' = r.data
    /\ eng_ref' = r.ref
    /\ UNCHANGED <<eng_dataset, eng_params, eng_lib, tfVars, ssVars, catVars, laterVars>>

GetExtremeValues ==
    Serve("extreme_values", get_extreme_values(eng_dataset, eng_params, eng_lib))

GetHistograms ==
    Serve("histograms", get_histograms(eng_dataset, eng_params, eng_lib))

GetClimatologyMap ==
    Serve("climatology_map", get_climatology_map(eng_dataset, eng_params, eng_lib))

GetAnnualCycle ==
    Serve("annual_cycle", get_annual_cycle(eng_dataset, eng_params, eng_lib))

EngNext ==
    \/ GetExtremeValues
    \/ GetHistograms
    \/ GetClimatologyMap
    \/ GetAnnualCycle

SpecEngine == EngInit /\ [][EngNext]_vars

-----------------------------------------------------------------------------
(* filter_by_period on its own *)

\* period values: 'all', every 'S-E' over the years of the data, and one
\* without a dash
FpPeriods == Periods \cup {IntToStr(2000)}

FpInit ==
    /\ BaseIdle
    /\ FpOthersIdle
    /\ fp_da \in Series
    /\ fp_period \in FpPeriods
    /\ fp_count = 0
    /\ fp_outcome = "none"
    /\ fp_result = <<>>

\* filter_by_period(da, period), applied to the input and then to its own
\* result
FilterByPeriod ==
    /\ fp_count < MaxApply
    /\ fp_outcome # "error"
    /\ fp_count' = fp_count + 1
    /\ IF FilterByPeriodRaises(fp_period)
       THEN fp_outcome' = "error" /\ fp_result' = <<>>
       ELSE /\ fp_outcome' = "ok"
            /\ fp_result' = filter_by_period(
                                IF fp_count = 0 THEN fp_da ELSE fp_result,
                                fp_period)
    /\ UNCHANGED <<fp_da, fp_period, baseVars, fpOthers>>

FpNext == FilterByPeriod

SpecPeriod == FpInit /\ [][FpNext]_vars

-----------------------------------------------------------------------------
(* calculate_trend on its own *)

\* the value of the i-th year of a yearly series, when it is not missing
YearValue(i) == Num((i * i) % 7)

\* the yearly series of n consecutive years from `first`, with a value in
\* the positions P and NaN in the others
YearlySeries(first, n, P) ==
    [i \in 1..n |-> [t |-> <<first + i - 1, 1, 1>>,
                     v |-> IF i \in P THEN YearValue(i) ELSE NaN]]

\* the series start before or at the first year of the trend
TrendInputs(max_years) ==
    UNION { { YearlySeries(first, n, P) : P \in SUBSET (1..n) } :
            <<first, n>> \in {start_year - 1, start_year} \X (0..max_years) }

TrInit ==
    /\ BaseIdle
    /\ TrOthersIdle
    /\ tr_da \in TrendInputs(MaxYears)
    /\ tr_fit \in RankDeficientFits
    /\ tr_pc = "new"
    /\ tr_result = <<>>

CalculateTrend ==
    /\ tr_pc = "new"
    /\ tr_pc' = "done"
    /\ tr_result' = calculate_trend(tr_da, tr_fit)
    /\ UNCHANGED <<tr_da, tr_fit, baseVars, trOthers>>

TrNext == CalculateTrend

SpecTrend == TrInit /\ [][TrNext]_vars

-----------------------------------------------------------------------------
(* _calculate_variable_stats on its own *)

\* the years and values of the yearly index handed to the function: years
\* before, in and after the reference window
VsYears == {1990, 1991, 1992, 2021}

VsValues == {-2, 0, 1}

\* an index with the single label 'Annual' and one row per year of Y, valued
\* by f
VsIndex(Y, f) ==
    [kind |-> "index", units |-> "", labels |-> {"Annual"},
     rows |-> [i \in 1..Cardinality(Y) |->
                 [t |-> SortedSeq({<<y, 1, 1>> : y \in Y})[i],
                  v |-> [l \in {"Annual"} |->
                           Num(f[SortedSeq({<<y, 1, 1>> : y \in Y})[i][1]])]]]]

VsTasks(max_years) ==
    UNION { { TasksFor("fd", VsIndex(Y, f))[1] : f \in [Y -> VsValues] } :
            Y \in {X \in SUBSET VsYears : Cardinality(X) <= max_years} }
    \cup { TasksFor("tas", da)[1] : da \in NumericArrays }

VsPeriods ==
    {PeriodStr(1990, 1990), PeriodStr(1991, 1992), PeriodStr(1992, 2021), ALL}

VsSeasons == {SeasonStr(1, 12), SeasonStr(1, 1)}

VsInit ==
    /\ BaseIdle
    /\ VsOthersIdle
    /\ vs_task \in VsTasks(MaxIndexYears)
    /\ vs_params \in [period : VsPeriods, season_filter : VsSeasons]
    /\ vs_lib \in BOOLEAN
    /\ vs_fit \in RankDeficientFits
    /\ vs_pc = "new"
    /\ vs_outcome = "none"
    /\ vs_yearly = <<>>
    /\ vs_target = <<>>
    /\ vs_ref_stats = <<>>
    /\ vs_result = <<>>

\* _calculate_variable_stats(da_full, short_name, unit, long_name, params,
\* agg_value): it raises, returns the 'filter not available' entry, or
\* returns the entry derived from da_yearly
CalculateVariableStats ==
    /\ vs_pc = "new"
    /\ vs_pc' = "done"
    /\ IF CalcRaises(vs_task.da, vs_params.season_filter, vs_lib)
       THEN /\ vs_outcome' = "raised"
            /\ UNCHANGED <<vs_yearly, vs_target, vs_ref_stats, vs_result>>
       ELSE /\ vs_outcome' = "returned"
            /\ vs_result' = CalcResult(vs_task, vs_params, vs_fit)
            /\ IF FilterMissing(vs_task.da, vs_params.season_filter)
               THEN UNCHANGED <<vs_yearly, vs_target, vs_ref_stats>>
               ELSE \E da_yearly \in {DaYearly(vs_task.da, vs_params.season_filter,
                                               vs_task.agg)} :
                      /\ vs_yearly' = da_yearly
                      /\ vs_target' = TargetVal(da_yearly, vs_params.period)
                      /\ vs_ref_stats' =
                            get_ref_stats(da_yearly,
                                          TargetVal(da_yearly, vs_params.period))
    /\ UNCHANGED <<vs_task, vs_params, vs_lib, vs_fit, baseVars, vsOthers>>

VsNext == CalculateVariableStats

SpecVarStats == VsInit /\ [][VsNext]_vars

-----------------------------------------------------------------------------
(* get_extreme_values with its sort *)

\* the number of rows of each list
top_n == 5

\* a sorts before b in the descending order: NaN rows come last
SortsBefore(a, b) == ~IsNaN(a.v) /\ (IsNaN(b.v) \/ FracLess(b.v, a.v))

\* the rows i and j of equal value, in the order the sort algorithm leaves
\* them in
TieBefore(j, i, ties) == IF ties = "kept" THEN j < i ELSE j > i

\* mutant: the rows sorted in ascending order
SortAscending(rows, ties) ==
    LET n == Len(rows)
        Rank(i) ==
            Cardinality({j \in 1..n :
                \/ SortsBefore(rows[i], rows[j])
                \/ /\ ~SortsBefore(rows[j], rows[i])
                   /\ TieBefore(j, i, ties)})
    IN  [p \in 1..n |-> rows[CHOOSE i \in 1..n : Rank(i) = p - 1]]

\* df.sort_values(by=[params.variable], ascending=False): a row is preceded
\* by the rows that sort before it and by the rows of equal value the
\* algorithm puts first
SortValues(rows, ties) ==
    LET n == Len(rows)
        Rank(i) ==
            Cardinality({j \in 1..n :
                \/ SortsBefore(rows[j], rows[i])
                \/ /\ ~SortsBefore(rows[i], rows[j])
                   /\ TieBefore(j, i, ties)})
    IN  [p \in 1..n |-> rows[CHOOSE i \in 1..n : Rank(i) = p - 1]]

\* the orders the sort may leave equal values in
TieOrders == {"kept", "reversed"}

\* .dt.strftime("%Y-%m-%d")
StrfDate(t) == FormatDate(IntToStr(t[1]), MonthStr(t[2]), MonthStr(t[3]))

\* df.iloc[0:5]
df_maxs(df) == SubSeq(df, 1, IF Len(df) < top_n THEN Len(df) ELSE top_n)

\* mutant: the last six rows
df_minsSix(df) == SubSeq(df, IF Len(df) < 6 THEN 1 ELSE Len(df) - 5, Len(df))

\* df.iloc[-5:]
df_mins(df) == SubSeq(df, IF Len(df) < top_n THEN 1 ELSE Len(df) - top_n + 1, Len(df))

\* the dict get_extreme_values returns for the sorted rows df
ExtremeDict(df) ==
    [date_min |-> [i \in 1..Len(df_mins(df)) |-> StrfDate(df_mins(df)[i].t)],
     value_min |-> ValuesOf(df_mins(df)),
     date_max |-> [i \in 1..Len(df_maxs(df)) |-> StrfDate(df_maxs(df)[i].t)],
     value_max |-> ValuesOf(df_maxs(df))]

\* the timestamps of the arrays: the last day of 1999 and the first days of
\* 2000
EvDate(i) == IF i = 1 THEN <<1999, 12, 31>> ELSE <<2000, 1, i - 1>>

EvValues == {Num(1), Num(2), NaN}

\* the arrays of at most MaxExtRows timestamps: raw daily data, and an index
\* with the single label 'Annual'
EvArrays(max_rows) ==
    UNION { UNION { { [kind |-> "numeric", units |-> "",
                       series |-> [i \in 1..k |-> [t |-> EvDate(i), v |-> f[i]]]],
                      [kind |-> "index", units |-> "", labels |-> {"Annual"},
                       rows |-> [i \in 1..k |->
                                   [t |-> EvDate(i),
                                    v |-> [l \in {"Annual"} |-> f[i]]]]] } :
                    f \in [1..k -> EvValues] } :
            k \in 0..max_rows }

EvInit ==
    /\ BaseIdle
    /\ EvOthersIdle
    /\ ev_dataset \in {<<da>> : da \in EvArrays(MaxExtRows)} \cup {<<>>}
    /\ ev_params \in [period : {PeriodStr(2000, 2000), ALL},
                      season_filter : {SeasonStr(1, 12)}]
    /\ ev_lib \in BOOLEAN
    /\ ev_ties \in TieOrders
    /\ ev_pc = "new"
    /\ ev_outcome = "none"
    /\ ev_data = <<>>
    /\ ev_sorted = <<>>
    /\ ev_result = <<>>

\* get_extreme_values(dataset, params): the selection raises, or the
\* selected rows are sorted and the two ends of the sort returned
ExtremeValues ==
    /\ ev_pc = "new"
    /\ ev_pc' = "done"
    /\ \E r \in {get_extreme_values(ev_dataset, ev_params, ev_lib)} :
          IF r.outcome = "error"
          THEN /\ ev_outcome' = "error"
               /\ UNCHANGED <<ev_data, ev_sorted, ev_result>>
          ELSE /\ ev_outcome' = "returned"
               /\ ev_data' = r.data
               /\ ev_sorted' = SortValues(ev_data', ev_ties)
               /\ ev_result' = ExtremeDict(ev_sorted')
    /\ UNCHANGED <<ev_dataset, ev_params, ev_lib, ev_ties, baseVars, evOthers>>

EvNext == ExtremeValues

SpecExtreme == EvInit /\ [][EvNext]_vars

\* the value patterns of the long series: rising, falling, two alternating
\* values, and every third value missing
OvPatterns == {"rising", "falling", "alternating", "gaps"}

OvValue(pattern, i) ==
    CASE pattern = "rising" -> Num(i)
      [] pattern = "falling" -> Num(40 - i)
      [] pattern = "alternating" -> Num(i % 2)
      [] OTHER -> IF i % 3 = 0 THEN NaN ELSE Num(i)

\* the arrays of at most max_rows timestamps holding one of the patterns
OvArrays(max_rows) ==
    UNION { UNION { { [kind |-> "numeric", units |-> "",
                       series |-> [i \in 1..k |->
                                     [t |-> EvDate(i), v |-> OvValue(p, i)]]],
                      [kind |-> "index", units |-> "", labels |-> {"Annual"},
                       rows |-> [i \in 1..k |->
                                   [t |-> EvDate(i),
                                    v |-> [l \in {"Annual"} |-> OvValue(p, i)]]]] } :
                    p \in OvPatterns } :
            k \in 0..max_rows }

OvInit ==
    /\ BaseIdle
    /\ EvOthersIdle
    /\ ev_dataset \in {<<da>> : da \in OvArrays(MaxOverlapRows)}
    /\ ev_params \in [period : {PeriodStr(2000, 2000), ALL},
                      season_filter : {SeasonStr(1, 12)}]
    /\ ev_lib \in BOOLEAN
    /\ ev_ties \in TieOrders
    /\ ev_pc = "new"
    /\ ev_outcome = "none"
    /\ ev_data = <<>>
    /\ ev_sorted = <<>>
    /\ ev_result = <<>>

SpecOverlap == OvInit /\ [][EvNext]_vars

-----------------------------------------------------------------------------
(* get_annual_cycle with its reference statistics *)

\* .dt.strftime("%m-%d")
MonthDay(t) == MonthStr(t[2]) \o Dash \o MonthStr(t[3])

\* the order of the characters of a label
CharRank(c) == IF IsDigit(c) THEN DigitVal(c) + 1 ELSE 0

\* the order of two labels as strings
LabelLess(a, b) ==
    \E i \in 1..Len(a) :
        /\ i <= Len(b)
        /\ CharRank(a[i]) < CharRank(b[i])
        /\ \A j \in 1..(i - 1) : a[j] = b[j]

\* df["dayofyear"] = df["time"].dt.strftime("%m-%d"): the column added
WithDayOfYear(rows) ==
    [i \in 1..Len(rows) |->
        [t |-> rows[i].t, v |-> rows[i].v, dayofyear |-> MonthDay(rows[i].t)]]

\* the values of the rows with a label, in order
ValuesAt(rows, label) ==
    LET Has(s) == s.dayofyear = label IN ValuesOf(SelectSeq(rows, Has))

\* the row of stats of one label: groupby('dayofyear').agg(...)
StatsRow(rows, label) ==
    [dayofyear |-> label,
     percentile90 |-> Quantile(ValuesAt(rows, label), 90, 100),
     median |-> Quantile(ValuesAt(rows, label), 50, 100),
     percentile10 |-> Quantile(ValuesAt(rows, label), 10, 100),
     min |-> MinSkipNa(ValuesAt(rows, label)),
     max |-> MaxSkipNa(ValuesAt(rows, label))]

\* stats.sort_values('dayofyear'): one row per label, labels ascending
ReferenceStats(rows) ==
    LET labels == {rows[i].dayofyear : i \in 1..Len(rows)}
        Rank(l) == Cardinality({k \in labels : LabelLess(k, l)})
    IN  [p \in 1..Cardinality(labels) |->
            StatsRow(rows, CHOOSE l \in labels : Rank(l) = p - 1)]

\* pd.concat([stats.iloc[-2:], stats, stats.iloc[:2]])
Extended(xs) ==
    SubSeq(xs, IF Len(xs) < 2 THEN 1 ELSE Len(xs) - 1, Len(xs))
        \o xs
        \o SubSeq(xs, 1, IF Len(xs) < 2 THEN Len(xs) ELSE 2)

\* .rolling(window=5, center=True, min_periods=1).mean()
RollingMean(xs) ==
    [p \in 1..Len(xs) |->
        MeanSkipNa(SubSeq(xs, IF p < 3 THEN 1 ELSE p - 2,
                              IF p + 2 > Len(xs) THEN Len(xs) ELSE p + 2))]

\* .iloc[2:-2]
Trimmed(xs) ==
    SubSeq(xs, (IF Len(xs) < 2 THEN Len(xs) ELSE 2) + 1,
               IF Len(xs) < 2 THEN 0 ELSE Len(xs) - 2)

\* the smoothed values of one column of stats
SmoothedColumn(xs) == Trimmed(RollingMean(Extended(xs)))

\* one column of a frame
ColumnOf(df, col) == [i \in 1..Len(df) |-> df[i][col]]

\* stats[col] = smoothed raises: the lengths differ
SmoothingRaises(stats, smoothed) == Len(smoothed) # Len(stats)

\* stats after the loop over percentile90, median and percentile10, each
\* column replaced by its smoothed values
Smooth(stats, p90, med, p10) ==
    [i \in 1..Len(stats) |->
        [dayofyear |-> stats[i].dayofyear,
         percentile90 |-> p90[i],
         median |-> med[i],
         percentile10 |-> p10[i],
         min |-> stats[i].min,
         max |-> stats[i].max]]

\* the rows of stats with a label, in the order of stats
Matches(stats, label) ==
    LET Has(st) == st.dayofyear = label IN SelectSeq(stats, Has)

\* the columns of stats of a row of the period whose label stats lacks
Unmatched(label) ==
    [dayofyear |-> label, percentile90 |-> NaN, median |-> NaN,
     percentile10 |-> NaN, min |-> NaN, max |-> NaN]

\* a row of merged: a row of the period, the columns of a row of stats and
\* the two flags, (value > max).astype(int) and (value < min).astype(int)
MergedRow(row, st) ==
    [time |-> row.t,
     value |-> row.v,
     percentile90 |-> st.percentile90,
     median |-> st.median,
     percentile10 |-> st.percentile10,
     min |-> st.min,
     max |-> st.max,
     higher_than_max |->
        IF ~IsNaN(row.v) /\ ~IsNaN(st.max) /\ FracLess(st.max, row.v)
        THEN 1 ELSE 0,
     lower_than_min |->
        IF ~IsNaN(row.v) /\ ~IsNaN(st.min) /\ FracLess(row.v, st.min)
        THEN 1 ELSE 0]

\* mutant: an inner join, a row of the period without statistics is left out
LeftJoinInner(row, stats) ==
    LET m == Matches(stats, row.dayofyear)
    IN  [k \in 1..Len(m) |-> MergedRow(row, m[k])]

\* how='left': a row of the period once per row of stats with its label,
\* once with missing statistics when there is none
LeftJoin(row, stats) ==
    LET m == Matches(stats, row.dayofyear)
    IN  IF Len(m) = 0 THEN <<MergedRow(row, Unmatched(row.dayofyear))>>
        ELSE [k \in 1..Len(m) |-> MergedRow(row, m[k])]

\* pd.merge(df_data, stats, on='dayofyear', how='left') with the two flags:
\* the joined rows in the order of the rows of the period
RECURSIVE MergedUpTo(_, _, _)
MergedUpTo(data, stats, n) ==
    IF n = 0 THEN <<>>
    ELSE MergedUpTo(data, stats, n - 1) \o LeftJoin(data[n], stats)

Merged(data, stats) == MergedUpTo(data, stats, Len(data))

\* return dict(date=..., value=..., ...): the nine lists
AnnualCycleDict(merged) ==
    [date |-> [i \in 1..Len(merged) |-> StrfDate(merged[i].time)],
     value |-> ColumnOf(merged, "value"),
     percentile90 |-> ColumnOf(merged, "percentile90"),
     median |-> ColumnOf(merged, "median"),
     percentile10 |-> ColumnOf(merged, "percentile10"),
     min |-> ColumnOf(merged, "min"),
     max |-> ColumnOf(merged, "max"),
     higher_than_max |-> ColumnOf(merged, "higher_than_max"),
     lower_than_min |-> ColumnOf(merged, "lower_than_min")]

\* the month-day labels of the arrays, the turn of the year among them
AcLabels == <<<<1, 1>>, <<1, 2>>, <<12, 31>>, <<12, 30>>, <<6, 15>>>>

\* a year of them, and the turn and the leap day of the next year
AcDates ==
    {<<1999, AcLabels[k][1], AcLabels[k][2]>> : k \in 1..MaxLabels}
        \cup {<<2000, 1, 1>>, <<2000, 1, 2>>, <<2000, 2, 29>>, <<2000, 12, 31>>}

\* the value stored at a timestamp
AcValue(t) ==
    Num(t[2] + 2 * t[3] + (IF t[2] = 12 THEN -10 ELSE 10) * (t[1] - 1999))

\* the daily arrays over the dates D, at most one value missing
AcArrays(dates) ==
    UNION { { [kind |-> "numeric", units |-> "",
               series |-> [i \in 1..Cardinality(D) |->
                            [t |-> SortedSeq(D)[i],
                             v |-> IF SortedSeq(D)[i] = gap THEN NaN
                                   ELSE AcValue(SortedSeq(D)[i])]]] :
              gap \in D \cup {<<>>} } :
            D \in SUBSET dates }

\* the index array get_annual_cycle refuses
AcIndex ==
    [kind |-> "index", units |-> "", labels |-> {"Annual"},
     rows |-> << [t |-> <<2000, 1, 1>>, v |-> [l \in {"Annual"} |-> Num(3)]] >>]

AcInit ==
    /\ BaseIdle
    /\ AcOthersIdle
    /\ ac_dataset \in {<<da>> : da \in AcArrays(AcDates)}
                        \cup {<<>>, <<AcIndex>>, <<AcIndex, AcIndex>>}
    /\ ac_params \in [period : {PeriodStr(2000, 2000)},
                      reference_period : {PeriodStr(1999, 1999), PeriodStr(1999, 2000)}]
    /\ ac_lib \in BOOLEAN
    /\ ac_pc = "new"
    /\ ac_outcome = "none"
    /\ ac_stats = <<>>
    /\ ac_smoothed = <<>>
    /\ ac_result = <<>>

\* get_annual_cycle(dataset, params): the selection raises, or the
\* reference statistics are computed, smoothed, unless the assignment of a
\* smoothed column raises, and merged with the rows of the period
AnnualCycle ==
    /\ ac_pc = "new"
    /\ ac_pc' = "done"
    /\ \E r \in {get_annual_cycle(ac_dataset, ac_params, ac_lib)} :
          IF r.outcome = "error"
          THEN /\ ac_outcome' = "error"
               /\ UNCHANGED <<ac_stats, ac_smoothed, ac_result>>
          ELSE \E df_data \in {WithDayOfYear(r.data)},
                  stats \in {ReferenceStats(WithDayOfYear(r.ref))} :
               \E p90 \in {SmoothedColumn(ColumnOf(stats, "percentile90"))},
                  med \in {SmoothedColumn(ColumnOf(stats, "median"))},
                  p10 \in {SmoothedColumn(ColumnOf(stats, "percentile10"))} :
                  /\ ac_stats' = stats
                  /\ IF SmoothingRaises(stats, p90)
                     THEN /\ ac_outcome' = "error"
                          /\ UNCHANGED <<ac_smoothed, ac_result>>
                     ELSE \E merged \in {Merged(df_data, Smooth(stats, p90, med, p10))} :
                          /\ ac_outcome' = "returned"
                          /\ ac_smoothed' = Smooth(stats, p90, med, p10)
                          /\ ac_result' = AnnualCycleDict(merged)
    /\ UNCHANGED <<ac_dataset, ac_params, ac_lib, baseVars, acOthers>>

AcNext == AnnualCycle

SpecCycle == AcInit /\ [][AcNext]_vars

-----------------------------------------------------------------------------
(* get_climatology_map over the regions of a request *)

\* s.split(sep): the list of the parts between the separators
RECURSIVE SplitOnFrom(_, _, _, _)
SplitOnFrom(s, sep, i, cur) ==
    IF i > Len(s) THEN <<cur>>
    ELSE IF s[i] = sep THEN <<cur>> \o SplitOnFrom(s, sep, i + 1, <<>>)
    ELSE SplitOnFrom(s, sep, i + 1, Append(cur, s[i]))

SplitOn(s, sep) == SplitOnFrom(s, sep, 1, <<>>)

\* x - y of two values, NaN when one is missing
SubNa(x, y) == IF IsNaN(x) \/ IsNaN(y) THEN NaN ELSE FracSub(x, y)

\* a dataset with a region dimension: region is the stored coordinate and
\* arrays[k] the array of region[k], all over the same timestamps

\* ds.sel(region=regions) raises KeyError: a name the coordinate lacks
SelRegionRaises(ds, regions) ==
    \E i \in 1..Len(regions) : \A k \in 1..Len(ds.region) : ds.region[k] # regions[i]

\* mutant: the named regions in the order of the stored coordinate
SelRegionStored(ds, regions) ==
    LET Named(k) == \E i \in 1..Len(regions) : regions[i] = ds.region[k]
        ks == SelectSeq([k \in 1..Len(ds.region) |-> k], Named)
    IN  [region |-> [i \in 1..Len(ks) |-> ds.region[ks[i]]],
         arrays |-> [i \in 1..Len(ks) |-> ds.arrays[ks[i]]]]

\* ds.sel(region=regions) with a list: one entry per name of the list, in the
\* order of the list
SelRegion(ds, regions) ==
    [region |-> regions,
     arrays |-> [i \in 1..Len(regions) |->
                    ds.arrays[CHOOSE k \in 1..Len(ds.region) :
                                 ds.region[k] = regions[i]]]]

\* .dropna(dim="time") of the selected label over several regions: a
\* timestamp is dropped when a region has no value at it
DropNaTimes(arrays, season_filter) ==
    IF \E i \in 1..Len(arrays) :
          ~IsIndex(arrays[i]) \/ PrecomputedRaises(arrays[i], season_filter)
    THEN arrays
    ELSE LET Full(t) ==
                 \A i \in 1..Len(arrays) :
                     \A k \in 1..Len(arrays[i].rows) :
                         arrays[i].rows[k].t = t =>
                             ~IsNaN(arrays[i].rows[k].v[
                                 PrecomputedLabel(arrays[i], season_filter)])
             Kept(row) == Full(row.t)
         IN  [i \in 1..Len(arrays) |->
                 [arrays[i] EXCEPT !.rows = SelectSeq(arrays[i].rows, Kept)]]

\* (yearly_filtered_data - ref_clim).mean("time") of one region, ref_clim
\* being the mean over time of the reference rows
Climatology(r, anomaly) ==
    IF anomaly
    THEN MeanSkipNa([k \in 1..Len(r.data) |->
                        SubNa(r.data[k].v, MeanSkipNa(ValuesOf(r.ref)))])
    ELSE MeanSkipNa(ValuesOf(r.data))

\* get_climatology_map(dataset, params): the outcome and the returned dict
ClimatologyMapOf(dss, pars, lib) ==
    LET got == get_single_dataset(dss)
        ds == got.value[1]
        regions == SplitOn(pars.region_name, ";")
    IN  IF got.raises THEN [outcome |-> "error", result |-> <<>>]
        ELSE IF SelRegionRaises(ds, regions)
        THEN [outcome |-> "error", result |-> <<>>]
        ELSE LET sel == SelRegion(ds, regions)
                 kept == DropNaTimes(sel.arrays, pars.season_filter)
                 rs == [i \in 1..Len(kept) |->
                          get_climatology_map(<<kept[i]>>, pars, lib)]
             IN  IF \E i \in 1..Len(rs) : rs[i].outcome = "error"
                 THEN [outcome |-> "error", result |-> <<>>]
                 ELSE [outcome |-> "returned",
                       result |->
                          [region |-> sel.region,
                           data |-> [i \in 1..Len(rs) |->
                                        Climatology(rs[i], pars.anomaly)]]]

\* the names of the regions
ES == <<"E", "S">>
FR == <<"F", "R">>
IT == <<"I", "T">>

\* the names joined with ';'
RECURSIVE Joined(_)
Joined(names) ==
    IF Len(names) = 0 THEN <<>>
    ELSE IF Len(names) = 1 THEN names[1]
    ELSE names[1] \o <<";">> \o Joined(Tail(names))

CmTimes == <<<<2000, 1, 1>>, <<2001, 1, 1>>>>

\* the value stored for a region at a timestamp
CmValue(name, t) ==
    (IF name = ES THEN 1 ELSE IF name = FR THEN 4 ELSE 9) + 20 * (t[1] - 2000)

\* the daily array of a region over the first n timestamps
CmNumeric(name, n) ==
    [kind |-> "numeric", units |-> "",
     series |-> [k \in 1..n |-> [t |-> CmTimes[k], v |-> CmValue(name, CmTimes[k])]]]

\* the index array of a region, without a value at the timestamps of gaps
CmIndexArray(name, gaps) ==
    [kind |-> "index", units |-> "", labels |-> {"Annual"},
     rows |-> [k \in 1..Len(CmTimes) |->
                 [t |-> CmTimes[k],
                  v |-> [l \in {"Annual"} |->
                           IF <<name, k>> \in gaps THEN NaN
                           ELSE Num(CmValue(name, CmTimes[k]))]]]]

\* the stored region coordinates: not sorted
CmCoordinates == {<<FR, ES>>, <<ES, FR, IT>>}

CmDatasets ==
    { [region |-> c, arrays |-> [k \in 1..Len(c) |-> CmNumeric(c[k], n)]] :
        c \in CmCoordinates, n \in 0..Len(CmTimes) }
    \cup
    { [region |-> c, arrays |-> [k \in 1..Len(c) |-> CmIndexArray(c[k], gaps)]] :
        c \in CmCoordinates,
        gaps \in {{}} \cup {{<<name, k>>} : name \in {ES, FR}, k \in 1..Len(CmTimes)} }

\* the region lists a request names: one region, several in either order, a
\* region twice, a region no dataset has
CmRequests ==
    {Joined(names) :
        names \in {<<ES>>, <<ES, FR>>, <<FR, ES>>, <<IT, ES, FR>>, <<ES, ES>>,
                   <<FR, <<"P", "T">>>>}}

CmInit ==
    /\ BaseIdle
    /\ CmOthersIdle
    /\ cm_dataset \in {<<ds>> : ds \in CmDatasets}
                        \cup {<<>>}
                        \cup {<<ds, ds>> : ds \in {d \in CmDatasets : Len(d.region) = 2
                                                      /\ ~IsIndex(d.arrays[1])}}
    /\ cm_params \in [region_name : CmRequests,
                      period : {ALL, PeriodStr(2000, 2000)},
                      reference_period : {PeriodStr(2000, 2001)},
                      season_filter : {SeasonStr(1, 12)},
                      anomaly : BOOLEAN]
    /\ cm_lib \in BOOLEAN
    /\ cm_pc = "new"
    /\ cm_outcome = "none"
    /\ cm_result = <<>>

\* get_climatology_map(dataset, params)
ClimatologyMap ==
    /\ cm_pc = "new"
    /\ cm_pc' = "done"
    /\ \E r \in {ClimatologyMapOf(cm_dataset, cm_params, cm_lib)} :
          /\ cm_outcome' = r.outcome
          /\ cm_result' = r.result
    /\ UNCHANGED <<cm_dataset, cm_params, cm_lib, baseVars, cmOthers>>

CmNext == ClimatologyMap

SpecMap == CmInit /\ [][CmNext]_vars

-----------------------------------------------------------------------------
(* get_time_series over the arrays of a request *)

\* what _process_single_dataset ends with
Processed(outcome, rows) == [outcome |-> outcome, rows |-> rows]

\* yearly_filtered_data - ref_clim, ref_clim being the mean over time of the
\* yearly reference series
LessClimatology(data, ref) ==
    [k \in 1..Len(data) |->
        [t |-> data[k].t, v |-> SubNa(data[k].v, MeanSkipNa(ValuesOf(ref)))]]

\* _process_single_dataset(ds, params) on the array da of the region, with
\* the default resample_freq (none) and season_filter_func (mean)
process_single_dataset(da, pars, lib) ==
    IF IsIndex(da)
    THEN IF PrecomputedRaises(da, pars.season_filter)
            \/ FilterByPeriodRaises(pars.period)
         THEN Processed("error", <<>>)
         ELSE LET selected == handle_precomputed_time_filter(da, pars.season_filter)
                  data == filter_by_period(selected, pars.period)
              IN  IF ~pars.anomaly THEN Processed("returned", data)
                  ELSE IF SelRaises(selected, pars.reference_period,
                                    pars.season_filter)
                  THEN Processed("error", <<>>)
                  ELSE LET ref == sel_time_filter(selected, pars.reference_period,
                                                  pars.season_filter)
                       IN  IF Len(ref) = 0 /\ lib THEN Processed("error", <<>>)
                           ELSE Processed("returned",
                                    LessClimatology(data,
                                        yearly_of(ref, pars.season_filter, "mean")))
    ELSE IF SelRaises(da.series, pars.period, pars.season_filter)
    THEN Processed("error", <<>>)
    ELSE LET data == sel_time_filter(da.series, pars.period, pars.season_filter)
         IN  IF Len(data) = 0 /\ lib THEN Processed("error", <<>>)
             ELSE IF ~pars.anomaly
             THEN Processed("returned", yearly(data, pars.season_filter, "mean"))
             ELSE IF SelRaises(da.series, pars.reference_period, pars.season_filter)
             THEN Processed("error", <<>>)
             ELSE LET ref == sel_time_filter(da.series, pars.reference_period,
                                             pars.season_filter)
                  IN  IF Len(ref) = 0 /\ lib THEN Processed("error", <<>>)
                      ELSE Processed("returned",
                               LessClimatology(
                                   yearly(data, pars.season_filter, "mean"),
                                   yearly(ref, pars.season_filter, "mean")))

\* the time coordinate of xr.merge: the timestamps of all the series, in
\* time order
MergedTimes(list) ==
    SortedSeq(UNION {{list[i].rows[k].t : k \in 1..Len(list[i].rows)} :
                        i \in 1..Len(list)})

\* mutant: a variable keeps its own entries only
ValuesOverOwn(rows, times) == ValuesOf(rows)

\* a variable of the merged dataset: the entry of its series at each
\* timestamp, NaN where the series has none
ValuesOver(rows, times) ==
    [k \in 1..Len(times) |->
        IF \E j \in 1..Len(rows) : rows[j].t = times[k]
        THEN rows[CHOOSE j \in 1..Len(rows) : rows[j].t = times[k]].v
        ELSE NaN]

\* get_time_series(dataset, params) on datasets of different variables: the
\* outcome and the returned dict; the merge of no series has no time
get_time_series(dss, pars, lib) ==
    LET list == [i \in 1..Len(dss) |-> process_single_dataset(dss[i].array, pars, lib)]
        times == MergedTimes(list)
    IN  IF Len(dss) = 0 \/ \E i \in 1..Len(list) : list[i].outcome = "error"
        THEN [outcome |-> "error", result |-> <<>>]
        ELSE [outcome |-> "returned",
              result |->
                 [date |-> [k \in 1..Len(times) |-> StrfDate(times[k])],
                  value |->
                     [name \in {dss[i].var : i \in 1..Len(dss)} |->
                         ValuesOver(
                             list[CHOOSE i \in 1..Len(dss) : dss[i].var = name].rows,
                             times)]]]

\* the variables of the request, in its order
TsVariables == <<"tas", "fd", "pr">>

\* the years an array may cover
TsYears == {1999, 2000, 2001}

\* the value stored at a timestamp of a variable
TsValue(name, t) == (IF name = "tas" THEN 1 ELSE IF name = "pr" THEN 3 ELSE 7) + t[1] - 1999

\* the array of a variable over the years ys: an index for 'fd', with one
\* entry a year, raw data with two samples a year otherwise
TsArray(name, ys) ==
    IF name = "fd"
    THEN [kind |-> "index", units |-> "", labels |-> {"Annual"},
          rows |-> [k \in 1..Cardinality(ys) |->
                      [t |-> SortedSeq({<<y, 1, 1>> : y \in ys})[k],
                       v |-> [l \in {"Annual"} |->
                                Num(TsValue(name,
                                        SortedSeq({<<y, 1, 1>> : y \in ys})[k]))]]]]
    ELSE [kind |-> "numeric", units |-> "",
          series |-> [k \in 1..(2 * Cardinality(ys)) |->
                        [t |-> SortedSeq({<<y, m, 1>> : y \in ys, m \in {1, 12}})[k],
                         v |-> TsValue(name,
                                   SortedSeq({<<y, m, 1>> : y \in ys, m \in {1, 12}})[k])]]]

\* the lists of n datasets of different variables, each covering a run of
\* years of its own
TsDatasets(n) ==
    UNION { { [i \in 1..k |-> [var |-> TsVariables[i], array |-> TsArray(TsVariables[i], f[i])]] :
                f \in [1..k -> {{}, {1999}, {2000}, {2000, 2001}}] } :
            k \in 0..n }

TsInit ==
    /\ BaseIdle
    /\ TsOthersIdle
    /\ ts_dataset \in TsDatasets(MaxSeries)
    /\ ts_params \in [period : {ALL, PeriodStr(2000, 2001)},
                      reference_period : {PeriodStr(1999, 2000)},
                      season_filter : {SeasonStr(1, 12), SeasonStr(12, 1)},
                      anomaly : BOOLEAN]
    /\ ts_lib \in BOOLEAN
    /\ ts_pc = "new"
    /\ ts_outcome = "none"
    /\ ts_result = <<>>

\* get_time_series(dataset, params)
TimeSeries ==
    /\ ts_pc = "new"
    /\ ts_pc' = "done"
    /\ \E r \in {get_time_series(ts_dataset, ts_params, ts_lib)} :
          /\ ts_outcome' = r.outcome
          /\ ts_result' = r.result
    /\ UNCHANGED <<ts_dataset, ts_params, ts_lib, baseVars, tsOthers>>

TsNext == TimeSeries

SpecSeries == TsInit /\ [][TsNext]_vars

-----------------------------------------------------------------------------
(* get_histograms with its histograms *)

\* np.round(x, decimals=1): the nearest tenth, a half to the even one
Round1(x) ==
    LET f == (10 * x[1]) \div x[2]
        rest == 10 * x[1] - f * x[2]
    IN  IF 2 * rest < x[2] THEN Frac(f, 10)
        ELSE IF 2 * rest > x[2] THEN Frac(f + 1, 10)
        ELSE IF f % 2 = 0 THEN Frac(f, 10)
        ELSE Frac(f + 1, 10)

\* the float inf
Inf == <<1, 0>>

\* x / y of two floats, y not negative: inf or nan when y is 0
DivNp(x, y) ==
    IF IsNaN(x) \/ IsNaN(y) THEN NaN
    ELSE IF y[1] = 0 THEN (IF x[1] = 0 THEN NaN ELSE Inf)
    ELSE IF x = Inf THEN Inf
    ELSE FracDiv(x, y)

\* np.histogram_bin_edges raises: the range of the values is not finite
BinEdgesRaise(values) == HasNaN(values)

\* the range of the bins: (0, 1) without values, half a unit to either side
\* of a single value
BinRange(values) ==
    IF Len(values) = 0 THEN <<Num(0), Num(1)>>
    ELSE IF Reduce("min", values) = Reduce("max", values)
    THEN <<FracSub(values[1], Frac(1, 2)), FracAdd(values[1], Frac(1, 2))>>
    ELSE <<Reduce("min", values), Reduce("max", values)>>

\* the number of bins of bins="auto": one when the values have no spread,
\* otherwise what the estimators of numpy give, here auto
BinCount(values, auto) ==
    IF Len(values) = 0 \/ Reduce("min", values) = Reduce("max", values)
    THEN 1
    ELSE auto

\* np.histogram_bin_edges(combined, bins="auto"): np.linspace over the range
histogram_bin_edges(values, auto) ==
    LET n == BinCount(values, auto)
        lo == BinRange(values)[1]
        hi == BinRange(values)[2]
    IN  [i \in 1..(n + 1) |->
            FracAdd(lo, FracMul(FracSub(hi, lo), Frac(i - 1, n)))]

\* np.round(bins, decimals=1)
Rounded(edges) == [i \in 1..Len(edges) |-> Round1(edges[i])]

\* 0.5 * (bins[1:] + bins[:-1])
BinCenters(bins) ==
    [i \in 1..(Len(bins) - 1) |->
        FracMul(Frac(1, 2), FracAdd(bins[i + 1], bins[i]))]

\* a.searchsorted(edge, 'left') and a.searchsorted(edge, 'right') of the
\* sorted values: how many are below the edge, how many are not above it
SearchLeft(a, edge) ==
    LET Below(x) == FracLess(x, edge) IN Len(SelectSeq(a, Below))

SearchRight(a, edge) ==
    LET UpTo(x) == ~FracLess(edge, x) IN Len(SelectSeq(a, UpTo))

\* the counts of np.histogram(a, bins=bins): the last bin includes its right
\* edge, the others do not
Counts(a, bins) ==
    [i \in 1..(Len(bins) - 1) |->
        (IF i = Len(bins) - 1 THEN SearchRight(a, bins[i + 1])
         ELSE SearchLeft(a, bins[i + 1]))
            - SearchLeft(a, bins[i])]

\* np.histogram(a, bins=bins, density=True): n / np.diff(bins) / n.sum()
Density(a, bins) ==
    LET n == Counts(a, bins)
        total == FracSum([i \in 1..Len(n) |-> Num(n[i])])
    IN  [i \in 1..Len(n) |->
            DivNp(DivNp(Num(n[i]), FracSub(bins[i + 1], bins[i])), total)]

\* np.argsort(a): the positions by ascending value, equal values in the
\* order of the array
ArgSort(a) ==
    LET Before(i, j) == FracLess(a[i], a[j]) \/ (a[i] = a[j] /\ i < j)
        Rank(i) == Cardinality({j \in 1..Len(a) : Before(j, i)})
    IN  [p \in 1..Len(a) |-> CHOOSE i \in 1..Len(a) : Rank(i) = p - 1]

\* np.argsort(a)[-3:][::-1]: the positions of the three largest values, the
\* largest first
TopIndices(a) ==
    [p \in 1..(IF Len(a) < 3 THEN Len(a) ELSE 3) |-> ArgSort(a)[Len(a) + 1 - p]]

\* the returned dict for the rows of the two periods and the rounded edges
HistogramsDict(rows, ref, bins) ==
    [bins |-> BinCenters(bins),
     value_period |-> Density(ValuesOf(rows), bins),
     value_reference |-> Density(ValuesOf(ref), bins),
     max_value_period |->
        [p \in 1..Len(TopIndices(ValuesOf(rows))) |->
            rows[TopIndices(ValuesOf(rows))[p]].v],
     max_value_reference |->
        [p \in 1..Len(TopIndices(ValuesOf(ref))) |->
            ref[TopIndices(ValuesOf(ref))[p]].v],
     max_date_period |->
        [p \in 1..Len(TopIndices(ValuesOf(rows))) |->
            StrfDate(rows[TopIndices(ValuesOf(rows))[p]].t)],
     max_date_reference |->
        [p \in 1..Len(TopIndices(ValuesOf(ref))) |->
            StrfDate(ref[TopIndices(ValuesOf(ref))[p]].t)]]

\* the timestamps of the arrays: a reference year and the year after
HgDate(i) == IF i % 2 = 1 THEN <<1999, 1, (i + 1) \div 2>> ELSE <<2000, 1, i \div 2>>

\* the values of the arrays: apart by less and by more than a tenth
HgValues == {Frac(26, 100), Frac(34, 100), Num(1), Num(2)}

\* the arrays of at most max_rows timestamps: raw daily data, which may lack
\* a value, and an index with the single label 'Annual'
HgArrays(max_rows) ==
    UNION { UNION { { [kind |-> "numeric", units |-> "",
                       series |-> [i \in 1..k |-> [t |-> HgDate(i), v |-> f[i]]]],
                      [kind |-> "index", units |-> "", labels |-> {"Annual"},
                       rows |-> [i \in 1..k |->
                                   [t |-> HgDate(i),
                                    v |-> [l \in {"Annual"} |-> f[i]]]]] } :
                    f \in [1..k -> HgValues] } :
            k \in 0..max_rows }
    \cup { [kind |-> "numeric", units |-> "",
            series |-> <<[t |-> HgDate(1), v |-> Num(1)], [t |-> HgDate(2), v |-> NaN]>>] }

HgInit ==
    /\ BaseIdle
    /\ HgOthersIdle
    /\ hg_dataset \in {<<da>> : da \in HgArrays(MaxHistRows)} \cup {<<>>}
    /\ hg_params \in [period : {PeriodStr(2000, 2000), ALL},
                      reference_period : {PeriodStr(1999, 1999)},
                      season_filter : {SeasonStr(1, 12)}]
    /\ hg_lib \in BOOLEAN
    /\ hg_auto \in 1..MaxBins
    /\ hg_bins = <<>>
    /\ hg_pc = "new"
    /\ hg_outcome = "none"
    /\ hg_result = <<>>

\* get_histograms(dataset, params): the selection raises, or the edges of
\* the bins cannot be computed, or the two histograms over the rounded
\* edges are returned with the largest values
Histograms ==
    /\ hg_pc = "new"
    /\ hg_pc' = "done"
    /\ \E r \in {get_histograms(hg_dataset, hg_params, hg_lib)} :
          IF r.outcome = "error" \/ BinEdgesRaise(ValuesOf(r.data) \o ValuesOf(r.ref))
          THEN /\ hg_outcome' = "error"
               /\ UNCHANGED <<hg_bins, hg_result>>
          ELSE \E bins \in {Rounded(histogram_bin_edges(
                                ValuesOf(r.data) \o ValuesOf(r.ref), hg_auto))} :
               /\ hg_outcome' = "returned"
               /\ hg_bins' = bins
               /\ hg_result' = HistogramsDict(r.data, r.ref, bins)
    /\ UNCHANGED <<hg_dataset, hg_params, hg_lib, hg_auto, baseVars, hgOthers>>

HgNext == Histograms

SpecHistograms == HgInit /\ [][HgNext]_vars

-----------------------------------------------------------------------------
(* Dataset objects: get_datasets with the memoized S3 open, and the engines'
   use of the datasets passed to them.  rt_heap maps the identity of a live
   Dataset object to its content, rt_cache is the lru_cache of _open_zarr_s3,
   rt_held the list get_datasets returned last, rt_log the calls made *)

SFCWIND == <<"s", "f", "c", "W", "i", "n", "d">>
TAS == <<"t", "a", "s">>
NONE_LEVEL == <<"N", "o", "n", "e">>

\* f"{var}_{lev}"
Combined(var, lev) == var \o <<"_">> \o lev

\* the variables of the requests
RtVariables == {SFCWIND, Combined(SFCWIND, NONE_LEVEL), Combined(TAS, NONE_LEVEL)}

RtRegions == {ES, FR}

\* the values of the store, per region: m/s for sfcWind
StoredValues(varname) ==
    [r \in RtRegions |->
        IF varname = SFCWIND
        THEN (IF r = ES THEN Num(5) ELSE Num(10))
        ELSE (IF r = ES THEN Num(1) ELSE Num(2))]

\* "_" in s
HasUnderscore(s) == \E i \in 1..Len(s) : s[i] = "_"

\* varname, level of a requested variable: combined_variable.rsplit("_", 1),
\* or the level 'None'
VarLevel(combined_variable) ==
    IF ~HasUnderscore(combined_variable)
    THEN <<combined_variable, NONE_LEVEL>>
    ELSE LET k == CHOOSE i \in 1..Len(combined_variable) :
                     /\ combined_variable[i] = "_"
                     /\ \A j \in (i + 1)..Len(combined_variable) :
                           combined_variable[j] # "_"
         IN  <<SubSeq(combined_variable, 1, k - 1),
               SubSeq(combined_variable, k + 1, Len(combined_variable))>>

\* the identity of a newly created object
NewId(heap) ==
    CHOOSE i \in 1..(Cardinality(DOMAIN heap) + 1) :
        /\ i \notin DOMAIN heap
        /\ \A j \in 1..(i - 1) : j \in DOMAIN heap

\* the objects ids of the heap
Kept(heap, ids) == [i \in ids |-> heap[i]]

\* ds[var] = ds[var] * 3.6: the variable of the object id replaced in place
TimesInPlace(heap, id) ==
    [heap EXCEPT ![id].values =
        [r \in DOMAIN @ |-> FracMul(@[r], Frac(36, 10))]]

\* get_datasets(params) for one variable: the dataset is opened locally (a
\* new object) or through the memoized _open_zarr_s3 (the object of the
\* cache, created at the first call), sfcWind is converted in the opened
\* object, and rename returns a new object
get_datasets(heap, cache, combined_variable, local) ==
    LET varname == VarLevel(combined_variable)[1]
        key == VarLevel(combined_variable)
        hit == ~local /\ key \in DOMAIN cache
        id == IF hit THEN cache[key] ELSE NewId(heap)
        opened == IF hit THEN heap
                  ELSE (id :> [name |-> varname,
                               values |-> StoredValues(varname)]) @@ heap
        converted == IF varname = SFCWIND THEN TimesInPlace(opened, id) ELSE opened
        new == NewId(converted)
        renamed == (new :> [name |-> combined_variable,
                            values |-> converted[id].values]) @@ converted
    IN  [heap |-> IF local THEN Kept(renamed, DOMAIN renamed \ {id}) ELSE renamed,
         cache |-> IF local \/ hit THEN cache ELSE (key :> id) @@ cache,
         datasets |-> <<new>>]

\* mutant: the selection is the dataset itself
SelInPlace(heap, id, region) == [heap |-> heap, id |-> id]

\* ds.sel(region=...): a new object holding the values of the region
Sel(heap, id, region) ==
    [heap |-> (NewId(heap) :> [name |-> heap[id].name,
                               values |-> [r \in {region} |-> heap[id].values[r]]])
                 @@ heap,
     id |-> NewId(heap)]

\* ensure_float(data): every variable of the object replaced by its cast to
\* float (the values of the model are floats)
ensure_float(heap, id) ==
    [heap EXCEPT ![id].values = [r \in DOMAIN @ |-> @[r]]]

\* transform_units(ds): sfcWind and sfcWind_None replaced by 3.6 times
\* their values, in the object passed
transform_units(heap, id) ==
    IF heap[id].name \in {SFCWIND, Combined(SFCWIND, NONE_LEVEL)}
    THEN TimesInPlace(heap, id)
    ELSE heap

Engines == {"time_series", "climatology_map", "annual_cycle", "extreme_values",
            "histograms", "summary_stats"}

\* the name of the data variable an engine reads from the dataset named name
\* for the request of variable
DataVar(engine, variable, name) ==
    CASE engine = "time_series" -> name
      [] engine = "climatology_map" -> variable
      [] engine = "summary_stats" ->
            IF VarLevel(name)[1] \in {SFCWIND, TAS}
            THEN Combined(VarLevel(name)[1], NONE_LEVEL)
            ELSE <<>>
      [] OTHER -> IF HasUnderscore(variable) THEN SplitOn(variable, "_")[1]
                  ELSE variable

\* one invocation of an engine on the list dss of datasets: the heap it leaves and
\* the values its statistic is computed from
Invocation(heap, dss, engine, variable, region) ==
    LET s == Sel(heap, dss[1], region)
        h == IF engine = "summary_stats" THEN s.heap
             ELSE transform_units(ensure_float(s.heap, s.id), s.id)
        found == DataVar(engine, variable, h[s.id].name) = h[s.id].name
    IN  [heap |-> Kept(h, DOMAIN heap),
         result |-> IF found
                    THEN [outcome |-> "returned", values |-> <<h[s.id].values[region]>>]
                    ELSE IF engine = "summary_stats"
                    THEN [outcome |-> "returned", values |-> <<>>]
                    ELSE [outcome |-> "error", values |-> <<>>]]

\* the objects of a list of datasets
Objects(heap, dss) == [i \in 1..Len(dss) |-> heap[dss[i]]]

RtInit ==
    /\ BaseIdle
    /\ RtOthersIdle
    /\ rt_heap = <<>>
    /\ rt_cache = <<>>
    /\ rt_held = <<>>
    /\ rt_log = <<>>

\* a request arrives: get_datasets(params); the datasets of the request
\* before are dropped
GetDatasets ==
    /\ Len(rt_log) < MaxCalls
    /\ \E variable \in RtVariables, local \in BOOLEAN :
       \E memo \in {Kept(rt_heap, {rt_cache[k] : k \in DOMAIN rt_cache})} :
       \E r \in {get_datasets(memo, rt_cache, variable, local)} :
          /\ rt_heap' = r.heap
          /\ rt_cache' = r.cache
          /\ rt_held' = r.datasets
          /\ rt_log' = Append(rt_log,
                [op |-> "get_datasets", variable |-> variable, region |-> <<>>,
                 local |-> local, before |-> <<>>,
                 after |-> Objects(r.heap, r.datasets),
                 heap_before |-> memo, heap_after |-> Kept(r.heap, DOMAIN memo),
                 result |-> [outcome |-> "returned", values |-> <<>>]])
    /\ UNCHANGED <<baseVars, rtOthers>>

\* an engine is invoked with the datasets of the request
Invoke ==
    /\ Len(rt_log) < MaxCalls
    /\ rt_held # <<>>
    /\ \E engine \in Engines, region \in RtRegions :
       \E variable \in {rt_heap[rt_held[1]].name} :
       \E r \in {Invocation(rt_heap, rt_held, engine, variable, region)} :
          /\ rt_heap' = r.heap
          /\ rt_log' = Append(rt_log,
                [op |-> engine, variable |-> variable, region |-> region,
                 local |-> FALSE, before |-> Objects(rt_heap, rt_held),
                 after |-> Objects(r.heap, rt_held),
                 heap_before |-> rt_heap, heap_after |-> r.heap,
                 result |-> r.result])
    /\ UNCHANGED <<rt_cache, rt_held, baseVars, rtOthers>>

RtNext == GetDatasets \/ Invoke

SpecSession == RtInit /\ [][RtNext]_vars

-----------------------------------------------------------------------------
(* Properties of the temporal filter *)

\* timestamp t belongs to the season window of year y
InSeason(t, y, a, b) ==
    IF a <= b
    THEN t[1] = y /\ t[2] \in a..b
    ELSE (t[1] = y - 1 /\ t[2] >= a) \/ (t[1] = y /\ t[2] <= b)

\* the input samples that belong to the window of some year of S..E
Expected(S, E, a, b) ==
    LET In(s) == \E y \in S..E : InSeason(s.t, y, a, b)
    IN  SelectSeq(dataset, In)

\* C1: for a non-wrapping season and an explicit period S-E, sel_time_filter
\* returns exactly the input samples whose month lies in [start_month,
\* end_month] and whose year lies in [S, E]
C1_NonWrappingSelect ==
    tf_pc = "sel_time_filter" =>
    \A S \in Years, E \in Years :
      (S <= E /\ period_range = PeriodStr(S, E)) =>
      \A a \in SeasonMonths, b \in SeasonMonths :
        (a <= b /\ time_filter = SeasonStr(a, b))
        => /\ tf_outcome = "ok"
           /\ LET In(s) == s.t[2] \in a..b /\ s.t[1] \in S..E
              IN  data_for_period = SelectSeq(dataset, In)

C1_Witness ==
    \E S \in Years, E \in Years, a \in SeasonMonths, b \in SeasonMonths :
        /\ tf_pc = "sel_time_filter"
        /\ period_range = PeriodStr(S, E) /\ S < E
        /\ time_filter = SeasonStr(a, b) /\ a < b
        /\ Len(data_for_period) >= 1
        /\ Len(data_for_period) < Len(dataset)

\* C2: for a wrapping season, the selection is exactly the input samples from
\* day 1 of start_month of year y-1 through the last day of end_month of
\* year y (29 February included when y is a leap year), for the years y of
\* the period
C2_WrappingSelect ==
    tf_pc = "sel_time_filter" =>
    \A S \in Years, E \in Years :
      (S <= E /\ period_range = PeriodStr(S, E)) =>
      \A a \in SeasonMonths, b \in SeasonMonths :
        (a > b /\ time_filter = SeasonStr(a, b))
        => /\ tf_outcome = "ok"
           /\ data_for_period = Expected(S, E, a, b)

C2_Witness ==
    /\ tf_pc = "sel_time_filter"
    /\ period_range = PeriodStr(2000, 2000)
    /\ time_filter = SeasonStr(12, 2)
    /\ Len(data_for_period) = 1
    /\ data_for_period[1].t = <<2000, 2, 29>>
    /\ Len(dataset) = 2

\* every season window of the period S..E holds a sample
WindowsHaveData(S, E, a, b) ==
    \A y \in S..E : \E i \in 1..Len(dataset) : InSeason(dataset[i].t, y, a, b)

\* C3: when every season window of the period holds data, compute() yields
\* one yearly entry per year S..E, in ascending order, labelled 1 January of
\* the year, whose value is the aggregation of exactly that year's window
C3_YearlyEntries ==
    tf_pc = "compute" =>
    \A S \in Years, E \in Years :
      (S <= E /\ period_range = PeriodStr(S, E)) =>
      \A a \in SeasonMonths, b \in SeasonMonths :
        (time_filter = SeasonStr(a, b) /\ WindowsHaveData(S, E, a, b))
        => /\ tf_outcome = "ok"
           /\ Len(yearly_data) = E - S + 1
           /\ \A i \in 1..Len(yearly_data) :
                /\ yearly_data[i].t = <<S + i - 1, 1, 1>>
                /\ LET In(s) == InSeason(s.t, S + i - 1, a, b)
                   IN  yearly_data[i].v =
                         Reduce(statistical,
                                ValuesOf(AsFrac(SelectSeq(dataset, In))))

C3_Witness ==
    \E S \in Years, E \in Years, a \in SeasonMonths, b \in SeasonMonths :
        /\ tf_pc = "compute"
        /\ period_range = PeriodStr(S, E) /\ S < E
        /\ time_filter = SeasonStr(a, b) /\ a > b
        /\ WindowsHaveData(S, E, a, b)
        /\ Len(yearly_data) = 2
        /\ statistical = "sum"

-----------------------------------------------------------------------------
(* Properties of the summary engine *)

\* the identifier the entry of a task is stored under
ExpectedId(task) ==
    IF Len(VarAggs(task.var_name)) > 1
    THEN task.var_name \o "_" \o task.agg
    ELSE task.var_name

\* the tasks of the request, as a function of its input alone
RequestTasks == BuildTasks(datasets, 1)

\* the entries of the map stored under an identifier
EntriesAt(id) ==
    {stats_dict[i].entry : i \in {j \in 1..Len(stats_dict) : stats_dict[j].key = id}}

\* C4: when a task of the pool raises, the failure is recorded as an entry
\* with an error field for that variable, the other variables keep their
\* entries and the request returns
C4_TaskFailureIsolated ==
    (ss_pc = "done" /\ \E i \in 1..Len(tasks) : task_state[i] = "raised") =>
        /\ ss_outcome = "returned"
        /\ \A i \in 1..Len(tasks) :
            IF task_state[i] = "raised"
            THEN \E e \in EntriesAt(ExpectedId(tasks[i])) : "error" \in DOMAIN e
            ELSE \E e \in EntriesAt(ExpectedId(tasks[i])) :
                    /\ "error" \notin DOMAIN e
                    /\ e.value = CalcResult(tasks[i], params, None)[2].value

\* C5: when a categorical array lacks the label of the requested season and
\* no task raises, the request returns and the map holds, for that variable,
\* an entry whose error field names the filter and the index, next to the
\* entries of the other variables
C5_MissingFilterIsPerVariable ==
    (/\ ss_pc = "done"
     /\ \A i \in 1..Len(tasks) : task_state[i] = "done"
     /\ \E i \in 1..Len(tasks) : FilterMissing(tasks[i].da, params.season_filter)) =>
        /\ ss_outcome = "returned"
        /\ \A i \in 1..Len(tasks) :
            IF FilterMissing(tasks[i].da, params.season_filter)
            THEN \E e \in EntriesAt(ExpectedId(tasks[i])) :
                    /\ "error" \in DOMAIN e
                    /\ e.error = <<"Filter", params.season_filter,
                                   "not available for index", tasks[i].var_name>>
            ELSE \E e \in EntriesAt(ExpectedId(tasks[i])) : "error" \notin DOMAIN e

\* C6: the map is written only once every task has completed, and the map a
\* request returns holds one entry per task, in the order the tasks were
\* submitted and with the contents the input determines, whatever the order
\* in which the worker threads ran and finished the tasks
C6_DeterministicMerge ==
    /\ stats_dict # <<>> =>
          \A i \in 1..Len(RequestTasks) : task_state[i] = "done"
    /\ ss_outcome = "returned" =>
          /\ Len(stats_dict) = Len(RequestTasks)
          /\ \A i \in 1..Len(RequestTasks) :
                /\ stats_dict[i].key = ExpectedId(RequestTasks[i])
                /\ \E fit \in TaskFits(RequestTasks[i], params) :
                      stats_dict[i].entry =
                          [variable |-> RequestTasks[i].var_name,
                           id |-> ExpectedId(RequestTasks[i])]
                              @@ CalcResult(RequestTasks[i], params, fit)[2]

\* a request returned a map of several entries whose tasks did not finish in
\* the order of their submission
C6_Witness ==
    /\ ss_outcome = "returned"
    /\ Len(stats_dict) >= 2
    /\ \E i \in 1..Len(finished), j \in 1..Len(finished) :
          i < j /\ finished[i] > finished[j]

\* C7: a period that is not 'all' and does not split into two numeric parts
\* makes the request fail, here a summary request with a variable to compute
C7_MalformedPeriodFails ==
    (/\ ss_pc = "done"
     /\ Len(RequestTasks) >= 1
     /\ params.period # ALL
     /\ LET p == Split(params.period)
        IN  Len(p) # 2 \/ ~IsNumeric(p[1]) \/ ~IsNumeric(p[2])) =>
        ss_outcome = "error"

-----------------------------------------------------------------------------
(* Properties of the categorical path *)

\* the labels the table maps the season to: one label, or none
MappedLabels(season) ==
    {e[3] : e \in {x \in SEASON_TO_TIME_FILTER : SeasonKey(x) = season}}

\* the month belongs to the season a label stands for
MonthInLabel(m, label) ==
    \E e \in SEASON_TO_TIME_FILTER :
        /\ e[3] = label
        /\ IF e[1] <= e[2] THEN m \in e[1]..e[2] ELSE m >= e[1] \/ m <= e[2]

\* the rows of the array whose value under the label is not missing
PresentRows(da, label) ==
    {i \in 1..Len(da.rows) : ~IsNaN(da.rows[i].v[label])}

\* the selection holds exactly the rows of the array that have a value under
\* the label, in the order of the array
SelectsColumn(sel, da, label) ==
    /\ Len(sel) = Cardinality(PresentRows(da, label))
    /\ \A i \in PresentRows(da, label) :
          \E j \in 1..Len(sel) :
              /\ sel[j] = [t |-> da.rows[i].t, v |-> da.rows[i].v[label]]
              /\ j = Cardinality({k \in PresentRows(da, label) : k <= i})

CatInvariant(da) ==
    \A i \in 1..Len(da.rows), l \in da.labels :
        ~IsNaN(da.rows[i].v[l]) => MonthInLabel(da.rows[i].t[2], l)

\* C10: the result of the categorical path holds no missing value and is
\* exactly the input timestamps with a value in the selected column, in
\* input order; when the array satisfies its invariant and no fallback was
\* taken, the month of every returned timestamp lies in the requested season
C10_CategoricalSelection ==
    (cat_pc = "done" /\ cat_outcome = "ok") =>
        /\ \A j \in 1..Len(cat_selected) : ~IsNaN(cat_selected[j].v)
        /\ SelectsColumn(cat_selected, cat_da, cat_label)
        /\ \A j \in 1..(Len(cat_selected) - 1) :
              DateKey(cat_selected[j].t) < DateKey(cat_selected[j + 1].t)
        /\ (CatInvariant(cat_da) /\ ~cat_warned) =>
              \A j \in 1..Len(cat_selected), l \in MappedLabels(cat_season) :
                  MonthInLabel(cat_selected[j].t[2], l)

\* the column of a wrapping season was selected without fallback from an
\* array that satisfies the invariant, and a timestamp outside it dropped
C10_Witness ==
    /\ cat_pc = "done"
    /\ cat_outcome = "ok"
    /\ ~cat_warned
    /\ cat_label = "DecFeb"
    /\ CatInvariant(cat_da)
    /\ Len(cat_selected) >= 1
    /\ Len(cat_selected) < Len(cat_da.rows)

-----------------------------------------------------------------------------
(* Properties of the single-array engines *)

\* C8: handed more than one array, a single-array engine fails with the
\* 'Multiple datasets not supported' error before it has taken an array or
\* made any selection; handed exactly one, it works on that array unchanged
C8_SingleArrayOnly ==
    eng_pc = "done" =>
        /\ Len(eng_dataset) > 1 =>
              /\ eng_outcome = "error"
              /\ eng_error # <<>> /\ eng_error[1] = MultipleDatasets
              /\ eng_ds = <<>>
              /\ eng_steps = <<>>
              /\ eng_data = <<>> /\ eng_ref = <<>>
        /\ Len(eng_dataset) = 1 => eng_ds = <<eng_dataset[1]>>

\* the histogram engine was handed two arrays
C8_Witness ==
    /\ eng_pc = "done"
    /\ eng_name = "histograms"
    /\ Len(eng_dataset) = 2
    /\ eng_outcome = "error"

-----------------------------------------------------------------------------
(* Properties of filter_by_period *)

\* C11: with period 'all' filter_by_period returns the input as it is (same
\* timestamps, values and order), however many times it is applied; with
\* period 'S-E' it returns exactly the input entries whose year lies in
\* [S, E], both bounds included, in input order
C11_PeriodFilter ==
    (fp_count >= 1 /\ fp_outcome = "ok") =>
        IF fp_period = ALL
        THEN fp_result = fp_da
        ELSE \E S \in Years, E \in Years :
                /\ fp_period = PeriodStr(S, E)
                /\ LET InYears(s) == S <= s.t[1] /\ s.t[1] <= E
                   IN  fp_result = SelectSeq(fp_da, InYears)

\* an explicit period kept samples of its last year and dropped others
C11_Witness ==
    /\ fp_count >= 1
    /\ fp_outcome = "ok"
    /\ fp_period = PeriodStr(1999, 2000)
    /\ \E i \in 1..Len(fp_result) : fp_result[i].t[1] = 2000
    /\ Len(fp_result) < Len(fp_da)

-----------------------------------------------------------------------------
(* Properties of calculate_trend *)

\* C12: calculate_trend returns null whenever fewer than 10 yearly points
\* from 1940 onward hold a value, and otherwise ten times the least-squares
\* slope of the values against the 0-based position of their year
C12_TrendNeedsTenValid ==
    tr_pc = "done" =>
        LET Counted(s) == s.t[1] >= 1940 /\ ~IsNaN(s.v)
        IN  IF Len(SelectSeq(tr_da, Counted)) < 10
            THEN tr_result = <<>>
            ELSE tr_result =
                    <<FracMul(Polyfit(MaskedPoints(TrendSlice(tr_da))), Num(10))>>

-----------------------------------------------------------------------------
(* Properties of the stat ids *)

\* the id the rule gives the aggregation agg of a catalog variable
RuleId(name, agg) ==
    IF Len(VarAggs(name)) = 1 THEN name ELSE name \o "_" \o agg

\* the (variable, aggregation) pairs of the whole catalog
CatalogPairs ==
    UNION { { <<var_info[i].name, var_info[i].aggs[k][1]>> :
                k \in 1..Len(var_info[i].aggs) } : i \in 1..Len(var_info) }

\* C13: the key of an entry is the bare variable name when the catalog lists
\* one aggregation for the variable and 'variable_aggregation' when it lists
\* several; distinct tasks get distinct ids, over the whole catalog, so that
\* no entry overwrites another, and the id and variable fields of an entry
\* agree with its key
C13_StatIds ==
    /\ ss_pc = "done" =>
          /\ \A p \in CatalogPairs, q \in CatalogPairs :
                p # q => RuleId(p[1], p[2]) # RuleId(q[1], q[2])
          /\ \A p \in CatalogPairs :
                \A k \in 1..Len(VarAggs(p[1])) :
                    VarAggs(p[1])[k][1] = p[2] =>
                        StatId(p[1], VarAggs(p[1])[k][2]) = RuleId(p[1], p[2])
    /\ \A i \in 1..Len(stats_dict) :
          /\ stats_dict[i].entry.id = stats_dict[i].key
          /\ \E j \in 1..Len(tasks) :
                /\ tasks[j].var_name = stats_dict[i].entry.variable
                /\ tasks[j].long_name = stats_dict[i].entry.long_name
                /\ stats_dict[i].key = RuleId(tasks[j].var_name, tasks[j].agg)
          /\ \A j \in 1..Len(stats_dict) :
                i # j => stats_dict[i].key # stats_dict[j].key
    /\ ss_outcome = "returned" => Len(stats_dict) = Len(tasks)

\* a returned map holds the entries of a variable with one aggregation and
\* of both aggregations of another
C13_Witness ==
    /\ ss_outcome = "returned"
    /\ \E i \in 1..Len(stats_dict) : stats_dict[i].key = "tas"
    /\ \E i \in 1..Len(stats_dict) : stats_dict[i].key = "tasmax_mean"
    /\ \E i \in 1..Len(stats_dict) : stats_dict[i].key = "tasmax_max"

-----------------------------------------------------------------------------
(* Properties of the entry of a variable *)

\* _calculate_variable_stats returned an entry derived from da_yearly
VsComputed ==
    /\ vs_pc = "done"
    /\ vs_outcome = "returned"
    /\ ~FilterMissing(vs_task.da, vs_params.season_filter)

\* the values of da_yearly in 1991..2020, NaN included
VsRefEntries ==
    LET InRef(s) == 1991 <= s.t[1] /\ s.t[1] <= 2020
    IN  ValuesOf(SelectSeq(vs_yearly, InRef))

\* the mean of the values of the reference window that are not NaN, when
\* there is one
VsRefMean ==
    IF Len(NotNaN(VsRefEntries)) = 0 THEN <<>>
    ELSE <<Frac(FracSum(NotNaN(VsRefEntries))[1],
                FracSum(NotNaN(VsRefEntries))[2] * Len(NotNaN(VsRefEntries)))>>

\* the entry holds the anomaly and, unless the reference mean is 0, the
\* percentage, of a target value and a reference mean that are available
AnomalyFields(with_null) ==
    LET e == vs_result[2]
        R == "1991_2020"
    IN  IF vs_target # <<>> /\ VsRefMean # <<>>
        THEN /\ R \in DOMAIN e.anomalies
             /\ e.anomalies[R] = FracSub(vs_target[1], VsRefMean[1])
             /\ IF VsRefMean[1] = Num(0)
                THEN R \notin DOMAIN e.anomalies_as_perc
                ELSE /\ R \in DOMAIN e.anomalies_as_perc
                     /\ e.anomalies_as_perc[R] =
                          FracMul(FracDiv(e.anomalies[R],
                                          IF FracLess(VsRefMean[1], Num(0))
                                          THEN FracSub(Num(0), VsRefMean[1])
                                          ELSE VsRefMean[1]),
                                  Num(100))
        ELSE IF with_null /\ Len(VsRefEntries) > 0
        THEN /\ DOMAIN e.anomalies = {R} /\ e.anomalies[R] = <<>>
             /\ DOMAIN e.anomalies_as_perc = {R} /\ e.anomalies_as_perc[R] = <<>>
        ELSE R \notin DOMAIN e.anomalies_as_perc

\* C14 as stated: the percent entry has no key when the reference mean is 0
\* and when either operand is unavailable
C14_PercentOmitted == VsComputed => AnomalyFields(FALSE)

\* C14: with target value and reference mean available, anomalies holds
\* target - mean and anomalies_as_perc holds anomaly / |mean| * 100 under
\* '1991_2020', the percent key being absent when the mean is 0; when an
\* operand is unavailable both maps hold the key with a null value if the
\* reference window has entries, and no key if it has none
C14_AnomalyFields == VsComputed => AnomalyFields(TRUE)

\* a percentage was computed against a negative reference mean
C14_Witness ==
    /\ VsComputed
    /\ vs_target # <<>>
    /\ VsRefMean # <<>>
    /\ FracLess(VsRefMean[1], Num(0))
    /\ "1991_2020" \in DOMAIN vs_result[2].anomalies_as_perc
    /\ vs_result[2].anomalies_as_perc["1991_2020"] # Num(0)

\* C15: with a target value and a non-missing sample in 1991-2020, the
\* percentile rank is 100 times the share of the non-missing reference
\* samples strictly below the target, lies in [0, 100] and is 0 when the
\* target equals the reference minimum; without a target value no
\* percentile rank is produced
C15_PercentileRank ==
    VsComputed =>
        LET ref == NotNaN(VsRefEntries)
            below == {i \in 1..Len(ref) : FracLess(ref[i], vs_target[1])}
        IN  /\ (vs_target # <<>> /\ Len(ref) >= 1) =>
                  /\ "percentile_rank" \in DOMAIN vs_ref_stats
                  /\ vs_ref_stats.percentile_rank =
                        Frac(100 * Cardinality(below), Len(ref))
                  /\ ~FracLess(vs_ref_stats.percentile_rank, Num(0))
                  /\ ~FracLess(Num(100), vs_ref_stats.percentile_rank)
                  /\ (\A i \in 1..Len(ref) : ~FracLess(ref[i], vs_target[1])) =>
                        vs_ref_stats.percentile_rank = Num(0)
            /\ vs_target = <<>> => "percentile_rank" \notin DOMAIN vs_ref_stats

\* the target lies above one reference sample and not above another
C15_Witness ==
    /\ VsComputed
    /\ vs_target # <<>>
    /\ "percentile_rank" \in DOMAIN vs_ref_stats
    /\ vs_ref_stats.percentile_rank = Num(50)

-----------------------------------------------------------------------------
(* Properties of a request without a reference window or without variables *)

\* the yearly series of a task has entries, none of them in 1991..2020
NoReferenceWindow(task) ==
    /\ ~FilterMissing(task.da, params.season_filter)
    /\ Len(DaYearly(task.da, params.season_filter, task.agg)) > 0
    /\ \A k \in 1..Len(DaYearly(task.da, params.season_filter, task.agg)) :
          \/ DaYearly(task.da, params.season_filter, task.agg)[k].t[1] < 1991
          \/ DaYearly(task.da, params.season_filter, task.agg)[k].t[1] > 2020

\* C16: in a returned map, the entry of a variable whose yearly series has
\* no sample in 1991-2020 has empty ref_means, ref_maxs, ref_mins,
\* ref_percentiles, anomalies and anomalies_as_perc and no error, and holds
\* the value and the trend of the available years; every other entry is the
\* one its own task yields
C16_EmptyReferenceWindow ==
    (ss_pc = "done" /\ ss_outcome = "returned") =>
        \A i \in 1..Len(RequestTasks) :
            IF NoReferenceWindow(RequestTasks[i])
            THEN LET e == stats_dict[i].entry
                     y == DaYearly(RequestTasks[i].da, params.season_filter,
                                   RequestTasks[i].agg)
                 IN  /\ e.ref_means = <<>>
                     /\ e.ref_maxs = <<>>
                     /\ e.ref_mins = <<>>
                     /\ e.ref_percentiles = <<>>
                     /\ e.anomalies = <<>>
                     /\ e.anomalies_as_perc = <<>>
                     /\ "error" \notin DOMAIN e
                     /\ e.value = TargetVal(y, params.period)
                     /\ \E fit \in TaskFits(RequestTasks[i], params) :
                           e.trend = calculate_trend(y, fit)
            ELSE \E fit \in TaskFits(RequestTasks[i], params) :
                    stats_dict[i].entry =
                        [variable |-> RequestTasks[i].var_name,
                         id |-> stats_dict[i].key]
                        @@ CalcResult(RequestTasks[i], params, fit)[2]

\* a returned map holds a variable without reference window, with its
\* value, next to a variable with reference statistics
C16_Witness ==
    /\ ss_pc = "done"
    /\ ss_outcome = "returned"
    /\ \E i \in 1..Len(RequestTasks), j \in 1..Len(RequestTasks) :
          /\ NoReferenceWindow(RequestTasks[i])
          /\ stats_dict[i].entry.value # <<>>
          /\ stats_dict[i].entry.ref_means = <<>>
          /\ "ref_means" \in DOMAIN stats_dict[j].entry
          /\ stats_dict[j].entry.ref_means # <<>>

\* C17: a request whose loaded datasets hold none of the catalog variables
\* ends with an error
C17_NoVariablesFails ==
    (/\ ss_pc = "done"
     /\ ~GetDatasetsRaises(datasets)
     /\ Len(RequestTasks) = 0)
        => ss_outcome = "error"

-----------------------------------------------------------------------------
(* Properties of the extreme values *)

\* the smaller of 5 and n
MinFive(n) == IF n < 5 THEN n ELSE 5

\* the rows of xs are a rearrangement of the rows of ys
SameRows(xs, ys) ==
    /\ Len(xs) = Len(ys)
    /\ \A i \in 1..Len(xs) :
          Cardinality({j \in 1..Len(xs) : xs[j] = xs[i]})
            = Cardinality({j \in 1..Len(ys) : ys[j] = xs[i]})

\* C18: for a filtered series of n rows the four lists have min(5, n)
\* elements; value_max never increases, missing values last, and is the
\* first min(5, n) rows of the descending sort of the series; value_min is
\* the last min(5, n) rows of that sort in the same order; each date is the
\* date of the row its value comes from
C18_ExtremeLists ==
    (ev_pc = "done" /\ ev_outcome = "returned") =>
        LET n == Len(ev_data)
            m == MinFive(n)
            r == ev_result
        IN  /\ SameRows(ev_sorted, ev_data)
            /\ \A i \in 1..n, j \in 1..n :
                  i < j => ~SortsBefore(ev_sorted[j], ev_sorted[i])
            /\ Len(r.date_min) = m /\ Len(r.value_min) = m
            /\ Len(r.date_max) = m /\ Len(r.value_max) = m
            /\ \A i \in 1..m :
                  /\ r.value_max[i] = ev_sorted[i].v
                  /\ r.date_max[i] = StrfDate(ev_sorted[i].t)
                  /\ r.value_min[i] = ev_sorted[n - m + i].v
                  /\ r.date_min[i] = StrfDate(ev_sorted[n - m + i].t)
            /\ \A i \in 1..m, j \in 1..m :
                  i < j =>
                     /\ ~FracLess(r.value_max[i], r.value_max[j])
                        \/ IsNaN(r.value_max[i]) \/ IsNaN(r.value_max[j])
                     /\ IsNaN(r.value_max[i]) => IsNaN(r.value_max[j])

\* six rows with two different values were sorted: the lists have five
\* elements and differ
C18_Witness ==
    /\ ev_pc = "done"
    /\ ev_outcome = "returned"
    /\ Len(ev_data) = 6
    /\ \A i \in 1..6 : ~IsNaN(ev_data[i].v)
    /\ ev_data[1].v = Num(1)
    /\ ev_data[6].v = Num(2)
    /\ ev_result.value_max # ev_result.value_min
    /\ ev_result.date_max[1] # StrfDate(ev_data[1].t)

\* C19: value_min holds the min(5, n) smallest values of the filtered
\* series, each with its own date, also when the series of the numeric path
\* holds missing values
C19_SmallestValues ==
    (ev_pc = "done" /\ ev_outcome = "returned") =>
        LET n == Len(ev_data)
            m == MinFive(n)
            r == ev_result
        IN  /\ Len(r.value_min) = m
            /\ Len(r.date_min) = m
            /\ \A i \in 1..m :
                  /\ r.value_min[i] = ev_sorted[n - m + i].v
                  /\ r.date_min[i] = StrfDate(ev_sorted[n - m + i].t)
            /\ \A i \in 1..m, j \in 1..(n - m) :
                  ~IsNaN(ev_sorted[j].v) =>
                     /\ ~IsNaN(r.value_min[i])
                     /\ ~FracLess(ev_sorted[j].v, r.value_min[i])

-----------------------------------------------------------------------------
(* Properties of the annual cycle *)

\* position i moved by k places, around the n positions
Around(i, k, n) == ((i - 1 + k + 2 * n) % n) + 1

\* the mean of the values of xs at the five positions around i
CircularMean(xs, i) ==
    MeanSkipNa([k \in 1..5 |-> xs[Around(i, k - 3, Len(xs))]])

\* C20: with n >= 1 month-day labels in the reference, the smoothed
\* statistics have the n rows of the raw ones in the same ascending order,
\* percentile90, median and percentile10 at position i are the mean of the
\* raw values at i-2 .. i+2 taken modulo n, and min and max are the raw ones
C20_CircularSmoothing ==
    (ac_pc = "done" /\ Len(ac_stats) >= 1) =>
        LET n == Len(ac_stats)
        IN  /\ ac_outcome = "returned"
            /\ Len(ac_smoothed) = n
            /\ \A i \in 1..n, j \in 1..n :
                  i < j => LabelLess(ac_smoothed[i].dayofyear,
                                     ac_smoothed[j].dayofyear)
            /\ \A i \in 1..n :
                  /\ ac_smoothed[i].dayofyear = ac_stats[i].dayofyear
                  /\ ac_smoothed[i].percentile90 =
                        CircularMean([k \in 1..n |-> ac_stats[k].percentile90], i)
                  /\ ac_smoothed[i].median =
                        CircularMean([k \in 1..n |-> ac_stats[k].median], i)
                  /\ ac_smoothed[i].percentile10 =
                        CircularMean([k \in 1..n |-> ac_stats[k].percentile10], i)
                  /\ ac_smoothed[i].min = ac_stats[i].min
                  /\ ac_smoothed[i].max = ac_stats[i].max

\* the rows of the period and of the reference period of the request
AcTarget == get_annual_cycle(ac_dataset, ac_params, ac_lib).data

AcReference == get_annual_cycle(ac_dataset, ac_params, ac_lib).ref

\* the names of the nine lists
AcColumns ==
    {"date", "value", "percentile90", "median", "percentile10", "min", "max",
     "higher_than_max", "lower_than_min"}

\* the reference values of the month and day of timestamp t
SameDay(ref, t) ==
    LET Has(s) == s.t[2] = t[2] /\ s.t[3] = t[3] IN ValuesOf(SelectSeq(ref, Has))

\* 1 when x is above the largest (way = "max") or below the smallest
\* (way = "min") of the values, 0 otherwise and when there is none
Beyond(x, values, way) ==
    IF IsNaN(x) \/ Len(NotNaN(values)) = 0 THEN 0
    ELSE IF way = "max"
    THEN (IF FracLess(Reduce("max", NotNaN(values)), x) THEN 1 ELSE 0)
    ELSE (IF FracLess(x, Reduce("min", NotNaN(values))) THEN 1 ELSE 0)

\* C21: the nine lists get_annual_cycle returns have one entry per timestamp
\* of the period, entry i is about the i-th timestamp in time order, and the
\* two flags are 0 or 1: 1 exactly when the value is above the largest, or
\* below the smallest, reference value of the same month and day
C21_ParallelLists ==
    (ac_pc = "done" /\ ac_outcome = "returned") =>
        \A target \in {AcTarget}, ref \in {AcReference} :
            /\ DOMAIN ac_result = AcColumns
            /\ \A col \in AcColumns : Len(ac_result[col]) = Len(target)
            /\ \A i \in 1..Len(target) :
                  /\ ac_result.date[i] = StrfDate(target[i].t)
                  /\ ac_result.value[i] = target[i].v
                  /\ ac_result.higher_than_max[i] =
                        Beyond(target[i].v, SameDay(ref, target[i].t), "max")
                  /\ ac_result.lower_than_min[i] =
                        Beyond(target[i].v, SameDay(ref, target[i].t), "min")
            /\ \A i \in 1..(Len(target) - 1) :
                  DateKey(target[i].t) < DateKey(target[i + 1].t)

\* a returned cycle of several rows, one without reference statistics, one
\* above the reference maximum of its day, one below the reference minimum
C21_Witness ==
    /\ ac_pc = "done"
    /\ ac_outcome = "returned"
    /\ \E target \in {AcTarget}, ref \in {AcReference} :
          /\ Len(target) >= 3
          /\ \E i \in 1..Len(target) : Len(SameDay(ref, target[i].t)) = 0
          /\ \E i \in 1..Len(target) : ac_result.higher_than_max[i] = 1
          /\ \E i \in 1..Len(target) : ac_result.lower_than_min[i] = 1

\* C22: a returned row dated 29 February has a percentile90, a median and a
\* percentile10 that are not missing, also when no sample of the reference
\* period is dated 29 February, the reference samples all holding a value
C22_LeapDayBand ==
    (ac_pc = "done" /\ ac_outcome = "returned") =>
        \A ref \in {AcReference} :
            (Len(ref) >= 2 /\ ~HasNaN(ValuesOf(ref))) =>
                \A i \in 1..Len(ac_result.date) :
                    ac_result.date[i] = StrfDate(<<2000, 2, 29>>) =>
                        /\ ~IsNaN(ac_result.percentile90[i])
                        /\ ~IsNaN(ac_result.median[i])
                        /\ ~IsNaN(ac_result.percentile10[i])

-----------------------------------------------------------------------------
(* Properties of the climatology map *)

\* the stored position of a region name, 0 when the coordinate lacks it
StoredAt(ds, name) ==
    IF \E k \in 1..Len(ds.region) : ds.region[k] = name
    THEN CHOOSE k \in 1..Len(ds.region) : ds.region[k] = name
    ELSE 0

\* the value of the region stored at position k, the other regions of the
\* request taking part in the selection of the timestamps only
CmValueAt(k, names) ==
    LET ds == cm_dataset[1]
        others == [i \in 1..Len(names) |-> ds.arrays[StoredAt(ds, names[i])]]
        kept == DropNaTimes(<<ds.arrays[k]>> \o others, cm_params.season_filter)
    IN  Climatology(get_climatology_map(<<kept[1]>>, cm_params, cm_lib),
                    cm_params.anomaly)

\* C23 as stated: the returned regions are in the order of the stored
\* region coordinate, whatever the order of the names in the request
C23_StoredOrder ==
    (cm_pc = "done" /\ cm_outcome = "returned") =>
        \A i \in 1..Len(cm_result.region), j \in 1..Len(cm_result.region) :
            i < j => StoredAt(cm_dataset[1], cm_result.region[i])
                        < StoredAt(cm_dataset[1], cm_result.region[j])

\* C23, amended: the returned regions are the names of the request in the
\* order of the request, the data list has the same length, and data[i] is
\* the value computed from the stored array of region[i]
C23_RequestOrder ==
    (cm_pc = "done" /\ cm_outcome = "returned") =>
        \A names \in {SplitOn(cm_params.region_name, ";")} :
            /\ cm_result.region = names
            /\ Len(cm_result.data) = Len(names)
            /\ \A i \in 1..Len(names) :
                  /\ StoredAt(cm_dataset[1], names[i]) > 0
                  /\ cm_result.data[i] =
                        CmValueAt(StoredAt(cm_dataset[1], names[i]), names)

\* a returned map of two regions named in the reverse of the stored order,
\* with different values
C23_Witness ==
    /\ cm_pc = "done"
    /\ cm_outcome = "returned"
    /\ Len(cm_result.region) = 2
    /\ StoredAt(cm_dataset[1], cm_result.region[1])
          > StoredAt(cm_dataset[1], cm_result.region[2])
    /\ ~IsNaN(cm_result.data[1])
    /\ ~IsNaN(cm_result.data[2])
    /\ cm_result.data[1] # cm_result.data[2]

-----------------------------------------------------------------------------
(* Properties of the time series *)

\* C24: for k >= 1 arrays of k different variables, the value map of a
\* returned time series has the k variables as its keys, the dates are in
\* ascending order, and the list of every variable is as long as the list
\* of dates, whatever the years each array covers
C24_AlignedSeries ==
    (ts_pc = "done" /\ ts_outcome = "returned") =>
        /\ DOMAIN ts_result.value = {ts_dataset[i].var : i \in 1..Len(ts_dataset)}
        /\ Cardinality(DOMAIN ts_result.value) = Len(ts_dataset)
        /\ \A k \in 1..(Len(ts_result.date) - 1) :
              DateKey(ParseDate(ts_result.date[k]))
                 < DateKey(ParseDate(ts_result.date[k + 1]))
        /\ \A name \in DOMAIN ts_result.value :
              Len(ts_result.value[name]) = Len(ts_result.date)

\* a returned time series of two variables, dated over more years than the
\* first variable has values for
C24_Witness ==
    /\ ts_pc = "done"
    /\ ts_outcome = "returned"
    /\ Cardinality(DOMAIN ts_result.value) = 2
    /\ Len(ts_result.date) >= 2
    /\ \E k \in 1..Len(ts_result.date) :
          /\ IsNaN(ts_result.value["tas"][k])
          /\ ~IsNaN(ts_result.value["fd"][k])
    /\ \E k \in 1..Len(ts_result.date) : ~IsNaN(ts_result.value["tas"][k])

-----------------------------------------------------------------------------
(* Properties of the histograms *)

\* the rows of the period and of the reference period of the request
HgData == get_histograms(hg_dataset, hg_params, hg_lib).data

HgReference == get_histograms(hg_dataset, hg_params, hg_lib).ref

\* the integral of a histogram over the bins: the sum of density times width,
\* NaN when a density is not a number
Integral(density, bins) ==
    IF \E i \in 1..Len(density) : density[i][2] = 0 THEN NaN
    ELSE FracSum([i \in 1..Len(density) |->
                    FracMul(density[i], FracSub(bins[i + 1], bins[i]))])

\* C25: for two filtered series that are not empty, the bins list and the
\* two density lists of get_histograms have the same length, one entry per
\* bin of the rounded edges, and each density integrates to 1 over the bins
C25_DensityIntegral ==
    (hg_pc = "done" /\ hg_outcome = "returned"
        /\ Len(HgData) > 0 /\ Len(HgReference) > 0) =>
        /\ Len(hg_result.bins) = Len(hg_bins) - 1
        /\ Len(hg_result.value_period) = Len(hg_result.bins)
        /\ Len(hg_result.value_reference) = Len(hg_result.bins)
        /\ Integral(hg_result.value_period, hg_bins) = Num(1)
        /\ Integral(hg_result.value_reference, hg_bins) = Num(1)

-----------------------------------------------------------------------------
(* Properties of the two ends of the sort *)

\* the rows (date, value) of the top list that the bottom list holds too
SharedRows(r) ==
    {i \in 1..Len(r.date_max) :
        \E j \in 1..Len(r.date_min) :
           /\ r.date_max[i] = r.date_min[j]
           /\ r.value_max[i] = r.value_min[j]}

\* C27: for a filtered series of n >= 1 rows the top list and the bottom
\* list share exactly max(0, 2*min(5, n) - n) rows: the lists are identical
\* when n <= 5, overlap when 6 <= n <= 9 and have no row in common when
\* n >= 10
C27_SharedRows ==
    (ev_pc = "done" /\ ev_outcome = "returned" /\ Len(ev_data) >= 1) =>
        LET n == Len(ev_data)
            m == MinFive(n)
            r == ev_result
            shared == Cardinality(SharedRows(r))
        IN  /\ Len(r.date_max) = m /\ Len(r.value_max) = m
            /\ Len(r.date_min) = m /\ Len(r.value_min) = m
            /\ shared = (IF 2 * m - n > 0 THEN 2 * m - n ELSE 0)
            /\ n <= 5 => r.date_max = r.date_min /\ r.value_max = r.value_min
            /\ (6 <= n /\ n <= 9) => (0 < shared /\ shared < 5)
            /\ n >= 10 => shared = 0

\* seven rows, one of them missing, were sorted: the lists share three rows
C27_Witness ==
    /\ ev_pc = "done"
    /\ ev_outcome = "returned"
    /\ Len(ev_data) = 7
    /\ \E i \in 1..7 : IsNaN(ev_data[i].v)
    /\ Cardinality(SharedRows(ev_result)) = 3
    /\ ev_result.date_max # ev_result.date_min

-----------------------------------------------------------------------------
(* Properties of the period 'all' with a wrapping season *)

\* C30: with period 'all' and a wrapping season a > b on data of the years
\* F..L, the selection is the samples of the windows month a of y-1 through
\* month b of y for y in F..L: no sample of the months a..12 of the last
\* year L is returned, the samples of the window of F are samples of the
\* months 1..b of F, and the timestamps of the result increase strictly
C30_AllWrapping ==
    (tf_pc = "sel_time_filter" /\ period_range = ALL /\ Len(dataset) >= 1) =>
    \A a \in SeasonMonths, b \in SeasonMonths :
      (a > b /\ time_filter = SeasonStr(a, b)) =>
        LET F == dataset[1].t[1]
            L == dataset[Len(dataset)].t[1]
            out == data_for_period
        IN  /\ tf_outcome = "ok"
            /\ out = Expected(F, L, a, b)
            /\ \A i \in 1..Len(out) : ~(out[i].t[1] = L /\ out[i].t[2] >= a)
            /\ \A i \in 1..Len(out) :
                  InSeason(out[i].t, F, a, b) =>
                      out[i].t[1] = F /\ out[i].t[2] \in 1..b
            /\ \A i \in 1..Len(out), j \in 1..Len(out) :
                  i < j => DateKey(out[i].t) < DateKey(out[j].t)

\* a December sample of the last year was left out and the December sample
\* of the first year returned
C30_Witness ==
    /\ tf_pc = "sel_time_filter"
    /\ period_range = ALL
    /\ time_filter = SeasonStr(12, 2)
    /\ tf_outcome = "ok"
    /\ Len(dataset) = 2
    /\ dataset[1].t = <<1999, 12, 1>>
    /\ dataset[2].t = <<2000, 12, 1>>
    /\ Len(data_for_period) = 1
    /\ data_for_period[1].t = <<1999, 12, 1>>

-----------------------------------------------------------------------------
(* Properties of the Dataset objects *)

\* the logged call is an engine invocation
IsInvocation(call) == call.op \in Engines

\* the stored wind speed of a region in km/h
StoredKmh(region) == FracMul(StoredValues(SFCWIND)[region], Frac(36, 10))

\* C26: an engine invocation leaves the datasets passed to it and every
\* other live object as they were, and two invocations of the same engine
\* with equal datasets and parameters return equal results, whatever was
\* invoked in between
C26_EnginesStateless ==
    \A i \in 1..Len(rt_log) :
       IsInvocation(rt_log[i]) =>
          /\ rt_log[i].after = rt_log[i].before
          /\ rt_log[i].heap_after = rt_log[i].heap_before
          /\ \A j \in 1..(i - 1) :
                (/\ rt_log[j].op = rt_log[i].op
                 /\ rt_log[j].before = rt_log[i].before
                 /\ rt_log[j].variable = rt_log[i].variable
                 /\ rt_log[j].region = rt_log[i].region)
                => rt_log[j].result = rt_log[i].result

\* the time series of a loaded sfcWind was computed, then its histograms,
\* then its time series again
C26_Witness ==
    /\ Len(rt_log) = 4
    /\ rt_log[1].op = "get_datasets"
    /\ rt_log[1].variable = SFCWIND
    /\ rt_log[2].op = "time_series"
    /\ rt_log[3].op = "histograms"
    /\ rt_log[4].op = "time_series"
    /\ rt_log[2].region = ES
    /\ rt_log[4].region = ES
    /\ rt_log[2].result.outcome = "returned"
    /\ rt_log[2].result.values # <<rt_log[2].before[1].values[ES]>>
    /\ rt_log[4].result = rt_log[2].result

\* C28: every get_datasets that loads the wind speed through the memoized
\* S3 open returns the stored values times 3.6, and leaves the memoized
\* objects as they were
C28_LoadIdempotent ==
    \A i \in 1..Len(rt_log) :
       (/\ rt_log[i].op = "get_datasets"
        /\ ~rt_log[i].local
        /\ VarLevel(rt_log[i].variable)[1] = SFCWIND)
       => /\ \A r \in RtRegions : rt_log[i].after[1].values[r] = StoredKmh(r)
          /\ rt_log[i].heap_after = rt_log[i].heap_before

\* C29: the values an engine computes its statistic from, for a loaded
\* sfcWind or sfcWind_None, are the stored values times 3.6, for every
\* engine
C29_ConvertedOnce ==
    \A i \in 1..Len(rt_log) :
       (/\ IsInvocation(rt_log[i])
        /\ VarLevel(rt_log[i].variable)[1] = SFCWIND
        /\ rt_log[i].result.outcome = "returned"
        /\ rt_log[i].result.values # <<>>)
       => rt_log[i].result.values = <<StoredKmh(rt_log[i].region)>>

====
